---- MODULE Spec2Model ----
(***************************************************************************)
(* Blendshape rule and combination engine of hair_qc_tool                  *)
(* (src/hair_qc_tool/utils/rules_utils.py).                                *)
(*                                                                         *)
(* Weights and constraint values are Python floats.  The model uses the    *)
(* floats n.0 (n an integer), on which > and * are exact, so a weight is   *)
(* written as the integer n.                                               *)
(*                                                                         *)
(* A Python dict whose iteration order the code's results depend on (the   *)
(* rules of a store) is a sequence of [key, rule] entries in insertion     *)
(* order.  The other dicts are functions; where the code iterates one of   *)
(* them the model follows the fixed order ModuleOrder / BlendshapeOrder.   *)
(***************************************************************************)
EXTENDS Integers, Sequences, FiniteSets, TLC

VARIABLES
    rules,                \* BlendshapeRulesManager.rules, per store
    internal_exclusions,  \* BlendshapeRulesManager.internal_exclusions, per store: a reference into heap
    heap,                 \* the dict objects held by reference: reference -> the dict's content now
    data,                 \* << >>, or <<d>> for the mapping d handed to from_dict last
    active_blendshapes,   \* the caller's combination: module -> reference of its per-module dict
    given,                \* the value of the caller's combination when the last operation was called
    constrained,          \* the dict apply_constraints_to_combination returned: module -> reference
    again,                \* the dict a second apply_constraints_to_combination, on that result, returned
    is_valid,             \* first component of is_combination_valid's result
    violations,           \* second component of is_combination_valid's result
    module_blendshapes,   \* the catalog handed to generate_combinations
    max_combinations,     \* the cap handed to generate_combinations
    valid_combinations,   \* what generate_combinations returned
    op                    \* the operation performed last, with its arguments and return value

vars == <<rules, internal_exclusions, heap, data, active_blendshapes, given,
          constrained, again, is_valid, violations, module_blendshapes,
          max_combinations, valid_combinations, op>>

-----------------------------------------------------------------------------
(* Bounds of the model *)

MaxRules == 2          \* rules in a drawn store

Weights == 0 .. 2            \* the weights of a drawn combination
ConstraintValues == 0 .. 1   \* the constraint values of a drawn rule
ModuleOrder == <<"crown", "tail">>
BlendshapeOrder == <<"curl", "volume">>
Modules == {"crown", "tail"}
\* The blendshapes of each module; both modules have a blendshape named curl
Shapes == [m \in Modules |-> IF m = "crown" THEN {"curl"} ELSE {"curl", "volume"}]

-----------------------------------------------------------------------------
(* Python dict helpers *)

EmptyDict == <<>>

\* d.get(k, default)
Get(d, k, default) == IF k \in DOMAIN d THEN d[k] ELSE default

\* d[k] = v
Put(d, k, v) == (k :> v) @@ d

\* str(x) of the float n.0
FloatStr(n) == ToString(n) \o ".0"

-----------------------------------------------------------------------------
(* ConstraintType and BlendshapeRule *)

EXCLUSION == "EXCLUSION"
WEIGHT_LIMIT == "WEIGHT_LIMIT"
DEPENDENCY == "DEPENDENCY"
ConstraintType == {EXCLUSION, WEIGHT_LIMIT, DEPENDENCY}

\* ConstraintType.value
ConstraintTypeValue(t) ==
    CASE t = EXCLUSION -> "exclusion"
      [] t = WEIGHT_LIMIT -> "weight_limit"
      [] t = DEPENDENCY -> "dependency"

BlendshapeRule(id, type, sm, sb, tm, tb, value, desc) ==
    [rule_id |-> id, rule_type |-> type,
     source_module |-> sm, source_blendshape |-> sb,
     target_module |-> tm, target_blendshape |-> tb,
     constraint_value |-> value, description |-> desc]

Source(rule) == <<rule.source_module, rule.source_blendshape>>
Target(rule) == <<rule.target_module, rule.target_blendshape>>

-----------------------------------------------------------------------------
(* The rules dict: a sequence of [key, rule] entries in insertion order *)

Keys(rs) == {rs[i].key : i \in 1 .. Len(rs)}

\* rules.values()
Values(rs) == [i \in 1 .. Len(rs) |-> rs[i].rule]

\* rules[k] = r : an existing key keeps its position, a new key goes last
SetItem(rs, k, r) ==
    IF k \in Keys(rs)
    THEN [i \in 1 .. Len(rs) |-> IF rs[i].key = k THEN [key |-> k, rule |-> r] ELSE rs[i]]
    ELSE Append(rs, [key |-> k, rule |-> r])

\* Mutant: the entry and those stored after it go
DelItem_rest(rs, k) ==
    SubSeq(rs, 1, (CHOOSE i \in 1 .. Len(rs) + 1 : (i = Len(rs) + 1 \/ rs[i].key = k)
                        /\ \A j \in 1 .. i - 1 : rs[j].key # k) - 1)

\* del rules[k]
DelItem(rs, k) == SelectSeq(rs, LAMBDA e : e.key # k)

OfType(rs, t) == SelectSeq(Values(rs), LAMBDA r : r.rule_type = t)

\* Mutant: the exclusion check runs over the rules of every type
get_exclusion_rules_all(rs) == Values(rs)

get_exclusion_rules(rs) == OfType(rs, EXCLUSION)
get_weight_limit_rules(rs) == OfType(rs, WEIGHT_LIMIT)
get_dependency_rules(rs) == OfType(rs, DEPENDENCY)

-----------------------------------------------------------------------------
(* Values a caller can hand to set_internal_exclusions: the list of names  *)
(* the signature declares (List[str]) or the mapping name -> excluded      *)
(* names the module files persist.                                         *)

ListValue(items) == [type |-> "list", items |-> items]
DictValue(map) == [type |-> "dict", map |-> map]

\* x in c
In(x, c) ==
    IF c.type = "list"
    THEN \E i \in 1 .. Len(c.items) : c.items[i] = x
    ELSE x \in DOMAIN c.map

-----------------------------------------------------------------------------
(* Sequence helpers *)

RECURSIVE Concat(_)
Concat(ss) == IF ss = <<>> THEN <<>> ELSE Head(ss) \o Concat(Tail(ss))

Range(s) == {s[i] : i \in 1 .. Len(s)}

-----------------------------------------------------------------------------
(* is_combination_valid *)

\* active_blendshapes.get(module, {}).get(blendshape, 0.0)
WeightOf(active, module, blendshape) ==
    Get(Get(active, module, EmptyDict), blendshape, 0)

\* The f-strings of the violations, kept as their pieces
ExclusionText(rule) ==
    <<"Exclusion violation: ", rule.source_module, ".", rule.source_blendshape,
      " cannot be used with ", rule.target_module, ".", rule.target_blendshape>>

WeightLimitText(rule, target_weight) ==
    <<"Weight limit violation: ", rule.target_module, ".", rule.target_blendshape,
      " weight ", FloatStr(target_weight), " exceeds limit ",
      FloatStr(rule.constraint_value), " when ",
      rule.source_module, ".", rule.source_blendshape, " is active">>

InternalText(module, bs1, bs2) ==
    <<"Internal exclusion violation in ", module, ": ", bs1,
      " cannot be used with ", bs2>>

\* Mutant: the target counts as active only above weight 1.0
ExclusionViolations_above(rs, active) ==
    LET ex == get_exclusion_rules(rs) IN
    Concat([i \in 1 .. Len(ex) |->
        LET rule == ex[i]
            source_weight == WeightOf(active, rule.source_module, rule.source_blendshape)
            target_weight == WeightOf(active, rule.target_module, rule.target_blendshape)
        IN IF source_weight > 0 /\ target_weight > 1
           THEN <<ExclusionText(rule)>> ELSE <<>>])

ExclusionViolations(rs, active) ==
    LET ex == get_exclusion_rules(rs) IN
    Concat([i \in 1 .. Len(ex) |->
        LET rule == ex[i]
            source_weight == WeightOf(active, rule.source_module, rule.source_blendshape)
            target_weight == WeightOf(active, rule.target_module, rule.target_blendshape)
        IN IF source_weight > 0 /\ target_weight > 0
           THEN <<ExclusionText(rule)>> ELSE <<>>])

WeightLimitViolations(rs, active) ==
    LET wl == get_weight_limit_rules(rs) IN
    Concat([i \in 1 .. Len(wl) |->
        LET rule == wl[i]
            source_weight == WeightOf(active, rule.source_module, rule.source_blendshape)
            target_weight == WeightOf(active, rule.target_module, rule.target_blendshape)
        IN IF source_weight > 0 /\ target_weight > rule.constraint_value
           THEN <<WeightLimitText(rule, target_weight)>> ELSE <<>>])

\* Mutant: the active names of every module are collected
ActiveInModule_any(active, module) ==
    SelectSeq(BlendshapeOrder,
              LAMBDA bs : \E m \in DOMAIN active : bs \in DOMAIN active[m] /\ active[m][bs] > 0)

\* [bs for bs, weight in active_blendshapes[module].items() if weight > 0]
ActiveInModule(active, module) ==
    SelectSeq(BlendshapeOrder,
              LAMBDA bs : bs \in DOMAIN active[module] /\ active[module][bs] > 0)

\* Mutant: one of the two names being excluded is enough
InternalViolationsOf_either(module, exclusions, active) ==
    IF module \in DOMAIN active
    THEN LET active_in_module == ActiveInModule(active, module)
             n == Len(active_in_module)
         IN Concat([i \in 1 .. n |-> Concat([j \in 1 .. n |->
                IF j > i /\ (In(active_in_module[i], exclusions)
                                \/ In(active_in_module[j], exclusions))
                THEN <<InternalText(module, active_in_module[i], active_in_module[j])>>
                ELSE <<>>])])
    ELSE <<>>

InternalViolationsOf(module, exclusions, active) ==
    IF module \in DOMAIN active
    THEN LET active_in_module == ActiveInModule(active, module)
             n == Len(active_in_module)
         IN Concat([i \in 1 .. n |-> Concat([j \in 1 .. n |->
                IF j > i /\ In(active_in_module[i], exclusions)
                         /\ In(active_in_module[j], exclusions)
                THEN <<InternalText(module, active_in_module[i], active_in_module[j])>>
                ELSE <<>>])])
    ELSE <<>>

InternalViolations(excl, active) ==
    Concat([k \in 1 .. Len(ModuleOrder) |->
        IF ModuleOrder[k] \in DOMAIN excl
        THEN InternalViolationsOf(ModuleOrder[k], excl[ModuleOrder[k]], active)
        ELSE <<>>])

\* Mutant: checking stops at the first violation
is_combination_valid_first(rs, excl, active) ==
    LET found == ExclusionViolations(rs, active)
                    \o WeightLimitViolations(rs, active)
                    \o InternalViolations(excl, active)
    IN [is_valid |-> Len(found) = 0,
        violations |-> IF found = <<>> THEN found ELSE <<Head(found)>>]

is_combination_valid(rs, excl, active) ==
    LET found == ExclusionViolations(rs, active)
                    \o WeightLimitViolations(rs, active)
                    \o InternalViolations(excl, active)
    IN [is_valid |-> Len(found) = 0, violations |-> found]

-----------------------------------------------------------------------------
(* apply_constraints_to_combination                                        *)
(*                                                                         *)
(* A combination is a dict of dicts.  The per-module dicts are objects:    *)
(* mem maps a reference to the dict it holds now, outer maps a module to   *)
(* the reference stored under it.                                          *)

\* The objects of a combination value handed in by a caller
Ref(call, m) == call \o "." \o m
RefsOf(active) == [m \in DOMAIN active |-> Ref("arg", m)]
MemOf(active) == [r \in {Ref("arg", m) : m \in DOMAIN active} |->
                    active[CHOOSE m \in DOMAIN active : Ref("arg", m) = r]]

\* The value reached through outer
Deref(outer, mem) == [m \in DOMAIN outer |-> mem[outer[m]]]

\* constrained.get(module, {}).get(blendshape, 0.0)
WeightIn(st, module, blendshape) ==
    IF module \in DOMAIN st.outer
    THEN Get(st.mem[st.outer[module]], blendshape, 0)
    ELSE 0

\* Mutant: a target that has a weight is set to the limit, above it or not
LimitTarget_set(st, rule) ==
    LET source_weight == WeightIn(st, rule.source_module, rule.source_blendshape) IN
    IF /\ source_weight > 0
       /\ rule.target_module \in DOMAIN st.outer
       /\ rule.target_blendshape \in DOMAIN st.mem[st.outer[rule.target_module]]
    THEN [st EXCEPT !.mem[st.outer[rule.target_module]] =
                        Put(@, rule.target_blendshape, rule.constraint_value)]
    ELSE st

\* Body of the weight limit loop, lines 218-225
LimitTarget(st, rule) ==
    LET source_weight == WeightIn(st, rule.source_module, rule.source_blendshape) IN
    IF /\ source_weight > 0
       /\ rule.target_module \in DOMAIN st.outer
       /\ rule.target_blendshape \in DOMAIN st.mem[st.outer[rule.target_module]]
       /\ st.mem[st.outer[rule.target_module]][rule.target_blendshape] > rule.constraint_value
    THEN [st EXCEPT !.mem[st.outer[rule.target_module]] =
                        Put(@, rule.target_blendshape, rule.constraint_value)]
    ELSE st

\* Mutant: a target that already has a weight keeps it (setdefault instead of assignment)
ActivateTarget_keep(st, rule, call) ==
    LET source_weight == WeightIn(st, rule.source_module, rule.source_blendshape) IN
    IF source_weight > 0
    THEN LET fresh == Ref(call, rule.target_module)
             st1 == IF rule.target_module \notin DOMAIN st.outer
                    THEN [outer |-> Put(st.outer, rule.target_module, fresh),
                          mem |-> Put(st.mem, fresh, EmptyDict)]
                    ELSE st
             dependency_weight == source_weight * rule.constraint_value
         IN IF rule.target_blendshape \in DOMAIN st1.mem[st1.outer[rule.target_module]]
            THEN st1
            ELSE [st1 EXCEPT !.mem[st1.outer[rule.target_module]] =
                                Put(@, rule.target_blendshape, dependency_weight)]
    ELSE st

\* Mutant: a target that has a weight keeps the larger of the two
ActivateTarget_max(st, rule, call) ==
    LET source_weight == WeightIn(st, rule.source_module, rule.source_blendshape) IN
    IF source_weight > 0
    THEN LET fresh == Ref(call, rule.target_module)
             st1 == IF rule.target_module \notin DOMAIN st.outer
                    THEN [outer |-> Put(st.outer, rule.target_module, fresh),
                          mem |-> Put(st.mem, fresh, EmptyDict)]
                    ELSE st
             dependency_weight == source_weight * rule.constraint_value
             held == Get(st1.mem[st1.outer[rule.target_module]], rule.target_blendshape, 0)
         IN [st1 EXCEPT !.mem[st1.outer[rule.target_module]] =
                            Put(@, rule.target_blendshape,
                                IF held > dependency_weight THEN held ELSE dependency_weight)]
    ELSE st

\* Body of the dependency loop, lines 229-238; call names the dicts this call creates
ActivateTarget(st, rule, call) ==
    LET source_weight == WeightIn(st, rule.source_module, rule.source_blendshape) IN
    IF source_weight > 0
    THEN LET fresh == Ref(call, rule.target_module)
             st1 == IF rule.target_module \notin DOMAIN st.outer
                    THEN [outer |-> Put(st.outer, rule.target_module, fresh),
                          mem |-> Put(st.mem, fresh, EmptyDict)]
                    ELSE st
             dependency_weight == source_weight * rule.constraint_value
         IN [st1 EXCEPT !.mem[st1.outer[rule.target_module]] =
                            Put(@, rule.target_blendshape, dependency_weight)]
    ELSE st

\* Mutant: the weight limit loop returns after the first clamp
RECURSIVE ApplyWeightLimits_first(_, _)
ApplyWeightLimits_first(st, wl) ==
    IF wl = <<>> THEN st
    ELSE LET next == LimitTarget(st, Head(wl))
         IN IF next # st THEN next ELSE ApplyWeightLimits_first(next, Tail(wl))

RECURSIVE ApplyWeightLimits(_, _)
ApplyWeightLimits(st, wl) ==
    IF wl = <<>> THEN st ELSE ApplyWeightLimits(LimitTarget(st, Head(wl)), Tail(wl))

RECURSIVE ApplyDependencies(_, _, _)
ApplyDependencies(st, deps, call) ==
    IF deps = <<>> THEN st
    ELSE ApplyDependencies(ActivateTarget(st, Head(deps), call), Tail(deps), call)

\* constrained = active_blendshapes.copy(): a new outer dict holding the same references
ShallowCopy(outer) == outer

\* The outer dict returned and the memory after the call
apply_constraints_to_combination(rs, outer, mem, call) ==
    LET st0 == [outer |-> ShallowCopy(outer), mem |-> mem]
        st1 == ApplyWeightLimits(st0, get_weight_limit_rules(rs))
    IN ApplyDependencies(st1, get_dependency_rules(rs), call)

\* The value returned for a combination value, when only the result matters
Applied(rs, active) ==
    LET st == apply_constraints_to_combination(rs, RefsOf(active), MemOf(active), "new")
    IN Deref(st.outer, st.mem)

-----------------------------------------------------------------------------
(* create_exclusion_rule, create_weight_limit_rule, create_dependency_rule: *)
(* the rule each builds                                                     *)

\* description or <default>
Or(description, default) == IF description = "" THEN default ELSE description

ExclusionRule(sm, sb, tm, tb, description) ==
    BlendshapeRule(sm \o "." \o sb \o "_X_" \o tm \o "." \o tb,
                   EXCLUSION, sm, sb, tm, tb, 0,
                   Or(description, "Exclude " \o sm \o "." \o sb \o " with " \o tm \o "." \o tb))

WeightLimitRule(sm, sb, tm, tb, max_weight, description) ==
    BlendshapeRule(sm \o "." \o sb \o "_W_" \o tm \o "." \o tb \o "_" \o FloatStr(max_weight),
                   WEIGHT_LIMIT, sm, sb, tm, tb, max_weight,
                   Or(description, "Limit " \o tm \o "." \o tb \o " to " \o FloatStr(max_weight)
                                    \o " when " \o sm \o "." \o sb \o " active"))

\* Mutant: the id carries the strength, as the id of a weight limit carries max_weight
DependencyRule_strength(sm, sb, tm, tb, strength, description) ==
    BlendshapeRule(sm \o "." \o sb \o "_D_" \o tm \o "." \o tb \o "_" \o FloatStr(strength),
                   DEPENDENCY, sm, sb, tm, tb, strength,
                   Or(description, sm \o "." \o sb \o " triggers " \o tm \o "." \o tb))

DependencyRule(sm, sb, tm, tb, strength, description) ==
    BlendshapeRule(sm \o "." \o sb \o "_D_" \o tm \o "." \o tb,
                   DEPENDENCY, sm, sb, tm, tb, strength,
                   Or(description, sm \o "." \o sb \o " triggers " \o tm \o "." \o tb))

\* Mutant: a rule whose id is stored already is not stored (setdefault)
add_rule_first(rs, rule) == IF rule.rule_id \in Keys(rs) THEN rs ELSE SetItem(rs, rule.rule_id, rule)

\* self.rules[rule.rule_id] = rule, line 57
add_rule(rs, rule) == SetItem(rs, rule.rule_id, rule)

-----------------------------------------------------------------------------
(* The inputs the specifications draw from *)

Stores == {"S", "T"}

\* The (source, target) links the drawn rules are made for: across modules both
\* ways, within a module both ways, and a pair with itself
CrownCurl == <<"crown", "curl">>
TailCurl == <<"tail", "curl">>
TailVolume == <<"tail", "volume">>
Links == {<<CrownCurl, TailCurl>>, <<TailCurl, CrownCurl>>,
          <<TailCurl, TailVolume>>, <<TailVolume, TailCurl>>,
          <<TailCurl, TailCurl>>}

\* What the create_*_rule methods build for the links and values given
ExclusionRules(links) ==
    {ExclusionRule(l[1][1], l[1][2], l[2][1], l[2][2], "") : l \in links}
WeightLimitRules(links, values) ==
    {WeightLimitRule(l[1][1], l[1][2], l[2][1], l[2][2], v, "") : l \in links, v \in values}
DependencyRules(links, values) ==
    {DependencyRule(l[1][1], l[1][2], l[2][1], l[2][2], v, "") : l \in links, v \in values}

\* The rules dicts reached by at most n add_rule calls on an empty store
RECURSIVE DrawnStores(_, _)
DrawnStores(n, drawn) ==
    IF n = 0 THEN {<<>>}
    ELSE LET smaller == DrawnStores(n - 1, drawn)
         IN smaller \cup {add_rule(rs, r) : rs \in smaller, r \in drawn}

\* The internal exclusions dicts a drawn store holds
DrawnExclusions ==
    {EmptyDict,
     "crown" :> ListValue(<<"curl", "volume">>),
     "tail" :> ListValue(<<"curl", "volume">>),
     "tail" :> DictValue("curl" :> <<"volume">> @@ "volume" :> <<"curl">>)}

\* The per-module dicts and the combinations a caller can hand in
InnerDicts(m) == UNION {[bs -> Weights] : bs \in SUBSET Shapes[m]}
Combinations ==
    UNION {{c \in [ms -> UNION {InnerDicts(m) : m \in ms}] :
                \A m \in ms : c[m] \in InnerDicts(m)} : ms \in SUBSET Modules}

-----------------------------------------------------------------------------
(* State shared by the specifications *)

None == "None"

ExclRef(store) == "excl." \o store

\* Two stores, S holding the rules rs and T the rules held, each with its own
\* internal exclusions dict (line 52)
StoresHold(rs, held) ==
    /\ rules = [s \in Stores |-> IF s = "S" THEN rs ELSE held]
    /\ internal_exclusions = [s \in Stores |-> ExclRef(s)]
    /\ data = << >>

\* The caller holds the combination c; store S holds the internal exclusions ex
CallerHolds(c, ex) ==
    /\ active_blendshapes = RefsOf(c)
    /\ heap = MemOf(c) @@ [r \in {ExclRef(s) : s \in Stores} |->
                                IF r = ExclRef("S") THEN ex ELSE EmptyDict]
    /\ given = c

NoGenerate ==
    /\ module_blendshapes = None
    /\ max_combinations = 0
    /\ valid_combinations = None

NoValidate ==
    /\ is_valid = None
    /\ violations = None

NoApply ==
    /\ constrained = None
    /\ again = None

\* The value of a combination held by reference
ValueOf(outer) == Deref(outer, heap)

-----------------------------------------------------------------------------
(* SpecApply: apply_constraints_to_combination on a drawn store and a       *)
(* drawn combination, then once more on what it returned                    *)

\* Every WeightLimit and Dependency rule of the links, and an Exclusion rule
ApplyRules ==
    WeightLimitRules(Links, ConstraintValues) \cup DependencyRules(Links, ConstraintValues)
        \cup ExclusionRules({<<CrownCurl, TailCurl>>})

InitApply ==
    /\ \E rs \in DrawnStores(MaxRules, ApplyRules) : StoresHold(rs, <<>>)
    /\ \E c \in Combinations : CallerHolds(c, EmptyDict)
    /\ NoApply /\ NoValidate /\ NoGenerate
    /\ op = [name |-> "init"]

\* constrained = manager.apply_constraints_to_combination(active_blendshapes)
Apply ==
    /\ op.name = "init"
    /\ LET st == apply_constraints_to_combination(rules["S"], active_blendshapes, heap, "new")
       IN /\ heap' = st.mem
          /\ constrained' = st.outer
          /\ op' = [name |-> "apply", returned |-> Deref(st.outer, st.mem)]
    /\ UNCHANGED <<rules, internal_exclusions, data, active_blendshapes, given, again,
                   is_valid, violations, module_blendshapes, max_combinations,
                   valid_combinations>>

\* again = manager.apply_constraints_to_combination(constrained)
ApplyAgain ==
    /\ op.name = "apply"
    /\ LET st == apply_constraints_to_combination(rules["S"], constrained, heap, "newer")
       IN /\ heap' = st.mem
          /\ again' = st.outer
          /\ op' = [name |-> "apply_again", first |-> op.returned,
                    returned |-> Deref(st.outer, st.mem)]
    /\ UNCHANGED <<rules, internal_exclusions, data, active_blendshapes, given, constrained,
                   is_valid, violations, module_blendshapes, max_combinations,
                   valid_combinations>>

NextApply == Apply \/ ApplyAgain

SpecApply == InitApply /\ [][NextApply]_vars

-----------------------------------------------------------------------------
(* Claims about apply_constraints_to_combination, checked under SpecApply *)

\* The combination c gives the pair exactly the weight x
HasWeight(c, pair, x) ==
    /\ pair[1] \in DOMAIN c
    /\ pair[2] \in DOMAIN c[pair[1]]
    /\ c[pair[1]][pair[2]] = x

\* The pair has a weight > 0 in the combination c
Active(c, pair) == WeightOf(c, pair[1], pair[2]) > 0

\* The data model's invariant on rules: no rule relates a pair to itself
NoSelfReference(rs) == \A i \in 1 .. Len(rs) : Source(rs[i].rule) # Target(rs[i].rule)

Applying(rs) == {i \in 1 .. Len(rs) : rs[i].rule.rule_type \in {WEIGHT_LIMIT, DEPENDENCY}}

\* C5 as stated: for every store (here: of rules that do not self-reference),
\* applying twice gives what applying once gave
C5_ApplyIdempotent ==
    (op.name = "apply_again" /\ NoSelfReference(rules["S"])) => op.returned = op.first

\* C5 amended: for every store that holds no Dependency rule, applying
\* apply_constraints_to_combination twice gives what applying it once gave
C5_ClampIdempotent ==
    (op.name = "apply_again" /\ get_dependency_rules(rules["S"]) = <<>>)
        => op.returned = op.first

\* C5 witness: a second apply after a first one that clamped a weight, no Dependency rule stored
C5_Witness ==
    /\ op.name = "apply_again"
    /\ get_dependency_rules(rules["S"]) = <<>>
    /\ Len(get_weight_limit_rules(rules["S"])) = 2
    /\ op.first # given

\* C6 as stated: every Dependency rule whose source has weight w > 0 in the input
\* leaves its target at exactly w * constraint_value (here: in stores of rules that
\* do not self-reference)
C6_DependencyDeterminism ==
    (op.name = "apply" /\ NoSelfReference(rules["S"])) =>
        \A i \in 1 .. Len(rules["S"]) :
            LET rule == rules["S"][i].rule
                w == WeightOf(given, rule.source_module, rule.source_blendshape)
            IN (rule.rule_type = DEPENDENCY /\ w > 0)
                   => HasWeight(op.returned, Target(rule), w * rule.constraint_value)

\* No other WeightLimit or Dependency rule targets the source of rule i, and
\* no other Dependency rule targets its target
Undisturbed(rs, i) ==
    \A j \in Applying(rs) \ {i} :
        /\ Target(rs[j].rule) # Source(rs[i].rule)
        /\ rs[j].rule.rule_type = DEPENDENCY => Target(rs[j].rule) # Target(rs[i].rule)

\* C6 amended: a Dependency rule whose source has weight w > 0 in the input leaves
\* its target at exactly w * constraint_value, provided no other WeightLimit or
\* Dependency rule of the store targets its source and no other Dependency rule
\* targets its target
C6_UndisturbedDependency ==
    op.name = "apply" =>
        \A i \in 1 .. Len(rules["S"]) :
            LET rule == rules["S"][i].rule
                w == WeightOf(given, rule.source_module, rule.source_blendshape)
            IN (rule.rule_type = DEPENDENCY /\ w > 0 /\ Undisturbed(rules["S"], i))
                   => HasWeight(op.returned, Target(rule), w * rule.constraint_value)

\* C6 witness: an undisturbed Dependency rule, next to another rule, has overwritten
\* a weight the target had in the input
C6_Witness ==
    /\ op.name = "apply"
    /\ Len(rules["S"]) = 2
    /\ \E i \in 1 .. Len(rules["S"]) :
        LET rule == rules["S"][i].rule
            w == WeightOf(given, rule.source_module, rule.source_blendshape)
        IN /\ rule.rule_type = DEPENDENCY /\ w > 1 /\ Undisturbed(rules["S"], i)
           /\ Target(rule)[1] \in DOMAIN given
           /\ Target(rule)[2] \in DOMAIN given[Target(rule)[1]]
           /\ given[Target(rule)[1]][Target(rule)[2]] # w * rule.constraint_value
           /\ HasWeight(op.returned, Target(rule), w * rule.constraint_value)

\* C8 as stated: after apply_constraints_to_combination returns, the caller's
\* combination has the value it had when the call was made (here: in stores of
\* rules that do not self-reference)
C8_InputNotMutated ==
    (op.name = "apply" /\ NoSelfReference(rules["S"])) => ValueOf(active_blendshapes) = given

OnlyWeightLimits(rs) == \A i \in 1 .. Len(rs) : rs[i].rule.rule_type = WEIGHT_LIMIT

\* The pairs a combination gives a weight
PairsOf(c) == {<<m, b>> \in Modules \X {"curl", "volume"} : m \in DOMAIN c /\ b \in DOMAIN c[m]}

\* In the combination c the source of the rule is active and its target is above the limit
Exceeds(c, rule) ==
    /\ Active(c, Source(rule))
    /\ Target(rule) \in PairsOf(c)
    /\ c[Target(rule)[1]][Target(rule)[2]] > rule.constraint_value

\* What C21 says of every store of WeightLimit rules but for the clamped targets:
\* the result has the modules and blendshapes of the input, no weight above its
\* input weight, and the input weight wherever no rule with an active source and
\* an exceeding target points
ClampFrame(rs, before, after) ==
    /\ DOMAIN after = DOMAIN before
    /\ \A m \in DOMAIN before : DOMAIN after[m] = DOMAIN before[m]
    /\ \A p \in PairsOf(before) :
          /\ after[p[1]][p[2]] <= before[p[1]][p[2]]
          /\ (\A i \in 1 .. Len(rs) : ~(Target(rs[i].rule) = p /\ Exceeds(before, rs[i].rule)))
                => after[p[1]][p[2]] = before[p[1]][p[2]]

\* C21 as stated: with WeightLimit rules only (here: rules that do not
\* self-reference), also every rule whose source is active and whose target exceeds
\* the limit in the input leaves its target at exactly constraint_value
C21_ClampOnlyLowers ==
    (op.name = "apply" /\ OnlyWeightLimits(rules["S"]) /\ NoSelfReference(rules["S"])) =>
        /\ ClampFrame(rules["S"], given, op.returned)
        /\ \A i \in 1 .. Len(rules["S"]) :
              Exceeds(given, rules["S"][i].rule)
                  => HasWeight(op.returned, Target(rules["S"][i].rule),
                               rules["S"][i].rule.constraint_value)

\* No other rule of the store targets the source or the target of rule i
Alone(rs, i) ==
    \A j \in 1 .. Len(rs) :
        j # i => Target(rs[j].rule) \notin {Source(rs[i].rule), Target(rs[i].rule)}

\* C21 as amended: the same, the exact end weight being claimed for the rules
\* whose source and target no other rule of the store targets
C21_ClampAlone ==
    (op.name = "apply" /\ OnlyWeightLimits(rules["S"])) =>
        /\ ClampFrame(rules["S"], given, op.returned)
        /\ \A i \in 1 .. Len(rules["S"]) :
              (Exceeds(given, rules["S"][i].rule) /\ Alone(rules["S"], i))
                  => HasWeight(op.returned, Target(rules["S"][i].rule),
                               rules["S"][i].rule.constraint_value)

\* C21 witness: of two WeightLimit rules one, alone on its source and target, has
\* clamped its target from 2.0 to 1.0, and the other found its target absent
C21_Witness ==
    /\ op.name = "apply"
    /\ OnlyWeightLimits(rules["S"])
    /\ Len(rules["S"]) = 2
    /\ \E i, j \in 1 .. 2 :
        /\ Exceeds(given, rules["S"][i].rule) /\ Alone(rules["S"], i)
        /\ rules["S"][i].rule.constraint_value = 1
        /\ HasWeight(given, Target(rules["S"][i].rule), 2)
        /\ HasWeight(op.returned, Target(rules["S"][i].rule), 1)
        /\ Active(given, Source(rules["S"][j].rule))
        /\ Target(rules["S"][j].rule) \notin PairsOf(given)
        /\ Target(rules["S"][j].rule) \notin PairsOf(op.returned)

\* C25 as stated: in the result of apply_constraints_to_combination no WeightLimit
\* rule has its source active and its target above constraint_value (here: in
\* stores of rules that do not self-reference)
C25_OutputWithinLimits ==
    (op.name = "apply" /\ NoSelfReference(rules["S"])) =>
        \A i \in 1 .. Len(rules["S"]) :
            rules["S"][i].rule.rule_type = WEIGHT_LIMIT
                => ~Exceeds(op.returned, rules["S"][i].rule)

-----------------------------------------------------------------------------
(* SpecConflict: apply_constraints_to_combination on a store in which       *)
(* Dependency rules from tail.curl and tail.volume target crown.curl, next  *)
(* to rules that change the weight of tail.volume                           *)

ConflictRules ==
    DependencyRules({<<TailCurl, CrownCurl>>, <<TailVolume, CrownCurl>>}, ConstraintValues)
        \cup DependencyRules({<<TailCurl, TailVolume>>}, {1})
        \cup WeightLimitRules({<<TailCurl, TailVolume>>}, {0})

InitConflict ==
    /\ \E rs \in DrawnStores(MaxRules + 1, ConflictRules) : StoresHold(rs, <<>>)
    /\ \E c \in Combinations : CallerHolds(c, EmptyDict)
    /\ NoApply /\ NoValidate /\ NoGenerate
    /\ op = [name |-> "init"]

NextConflict == Apply

SpecConflict == InitConflict /\ [][NextConflict]_vars

\* The Dependency rules of the store that target the pair, by position
DependenciesOn(rs, pair) ==
    {i \in 1 .. Len(rs) : rs[i].rule.rule_type = DEPENDENCY /\ Target(rs[i].rule) = pair}

\* Those whose source is active in the combination c
Triggered(rs, pair, c) == {i \in DependenciesOn(rs, pair) : Active(c, Source(rs[i].rule))}

Last(positions) == CHOOSE i \in positions : \A j \in positions : j <= i

\* What the rule at position i makes of the input weight of its source
Derived(rs, i, c) ==
    WeightOf(c, rs[i].rule.source_module, rs[i].rule.source_blendshape)
        * rs[i].rule.constraint_value

\* C22 as stated: when two or more Dependency rules with active sources target one
\* pair, the pair ends at source weight * constraint_value of the last of them in
\* the store's order, created if absent (here: in stores of rules that do not
\* self-reference)
C22_LastAppliedWins ==
    (op.name = "apply" /\ NoSelfReference(rules["S"])) =>
        \A pair \in {CrownCurl, TailCurl, TailVolume} :
            LET triggered == Triggered(rules["S"], pair, given) IN
            Cardinality(triggered) >= 2
                => HasWeight(op.returned, pair, Derived(rules["S"], Last(triggered), given))

\* No WeightLimit or Dependency rule of the store targets the source of a
\* Dependency rule on the pair
SourcesUntouched(rs, pair) ==
    \A i \in DependenciesOn(rs, pair) : \A j \in Applying(rs) :
        Target(rs[j].rule) # Source(rs[i].rule)

\* C22 as amended: the same, provided no WeightLimit or Dependency rule of the
\* store targets the source of a Dependency rule on that pair
C22_LastUntouchedWins ==
    op.name = "apply" =>
        \A pair \in {CrownCurl, TailCurl, TailVolume} :
            LET triggered == Triggered(rules["S"], pair, given) IN
            (Cardinality(triggered) >= 2 /\ SourcesUntouched(rules["S"], pair))
                => HasWeight(op.returned, pair, Derived(rules["S"], Last(triggered), given))

\* C22 witness: two Dependency rules with active, untouched sources target
\* crown.curl, which the input lacks with its module; the first derives 2.0, the
\* last 1.0, and crown.curl is created with 1.0
C22_Witness ==
    /\ op.name = "apply"
    /\ "crown" \notin DOMAIN given
    /\ SourcesUntouched(rules["S"], CrownCurl)
    /\ LET triggered == Triggered(rules["S"], CrownCurl, given) IN
        /\ Cardinality(triggered) = 2
        /\ \E i \in triggered : i # Last(triggered) /\ Derived(rules["S"], i, given) = 2
        /\ Derived(rules["S"], Last(triggered), given) = 1
    /\ HasWeight(op.returned, CrownCurl, 1)

-----------------------------------------------------------------------------
(* SpecValidate: is_combination_valid on a drawn store and a drawn combination *)

\* Every Exclusion and WeightLimit rule of the links, and a Dependency rule
ValidateRules ==
    ExclusionRules(Links) \cup WeightLimitRules(Links, ConstraintValues)
        \cup DependencyRules({<<CrownCurl, TailCurl>>}, {1})

InitValidate ==
    /\ \E rs \in DrawnStores(MaxRules, ValidateRules) : StoresHold(rs, <<>>)
    /\ \E c \in Combinations, ex \in DrawnExclusions : CallerHolds(c, ex)
    /\ NoApply /\ NoValidate /\ NoGenerate
    /\ op = [name |-> "init"]

\* is_valid, violations = manager.is_combination_valid(active_blendshapes)
Validate ==
    /\ op.name = "init"
    /\ LET result == is_combination_valid(rules["S"], heap[internal_exclusions["S"]],
                                          ValueOf(active_blendshapes))
       IN /\ is_valid' = result.is_valid
          /\ violations' = result.violations
    /\ op' = [name |-> "validate"]
    /\ UNCHANGED <<rules, internal_exclusions, heap, data, active_blendshapes, given,
                   constrained, again, module_blendshapes, max_combinations,
                   valid_combinations>>

NextValidate == Validate

SpecValidate == InitValidate /\ [][NextValidate]_vars

\* The violation text names the pair as module.blendshape
Mentions(text, pair) ==
    \E i \in 1 .. Len(text) - 2 :
        text[i] = pair[1] /\ text[i + 1] = "." /\ text[i + 2] = pair[2]

IsExclusionText(text) == text[1] = "Exclusion violation: "
IsWeightLimitText(text) == text[1] = "Weight limit violation: "
IsInternalText(text) == text[1] = "Internal exclusion violation in "

\* C1: an Exclusion rule between two distinct pairs that both have weight > 0 makes
\* is_combination_valid report the combination invalid, with a violation naming both pairs
C1_ExclusionReported ==
    op.name = "validate" =>
        \A i \in 1 .. Len(rules["S"]) :
            LET rule == rules["S"][i].rule IN
            (/\ rule.rule_type = EXCLUSION
             /\ Source(rule) # Target(rule)
             /\ Active(given, Source(rule)) /\ Active(given, Target(rule)))
                => /\ is_valid = FALSE
                   /\ \E k \in 1 .. Len(violations) :
                        /\ Mentions(violations[k], Source(rule))
                        /\ Mentions(violations[k], Target(rule))

\* C1 witness: validated with an Exclusion rule across two modules whose pairs are both active
C1_Witness ==
    /\ op.name = "validate"
    /\ is_valid = FALSE
    /\ \E i \in 1 .. Len(rules["S"]) :
        LET rule == rules["S"][i].rule IN
        /\ rule.rule_type = EXCLUSION
        /\ rule.source_module # rule.target_module
        /\ Active(given, Source(rule)) /\ Active(given, Target(rule))

\* C7: every internal exclusion violation is about a module that has an internal
\* exclusion entry and about two blendshapes with weight > 0 in that same module
C7_SameModuleOnly ==
    op.name = "validate" =>
        \A k \in 1 .. Len(violations) :
            IsInternalText(violations[k]) =>
                LET module == violations[k][2] IN
                /\ module \in DOMAIN heap[internal_exclusions["S"]]
                /\ Active(given, <<module, violations[k][4]>>)
                /\ Active(given, <<module, violations[k][6]>>)

\* C7 witness: the entry of crown lists curl and volume, both are active in tail,
\* crown is in the combination, and no internal exclusion violation is reported
C7_Witness ==
    /\ op.name = "validate"
    /\ DOMAIN heap[internal_exclusions["S"]] = {"crown"}
    /\ "crown" \in DOMAIN given
    /\ Active(given, <<"tail", "curl">>) /\ Active(given, <<"tail", "volume">>)
    /\ \A k \in 1 .. Len(violations) : ~IsInternalText(violations[k])

\* The rules of the given type that the combination c breaks, by position
Broken(rs, c, type) ==
    {i \in 1 .. Len(rs) :
        LET rule == rs[i].rule IN
        /\ rule.rule_type = type
        /\ Active(c, Source(rule))
        /\ IF type = EXCLUSION
           THEN Active(c, Target(rule))
           ELSE WeightOf(c, Target(rule)[1], Target(rule)[2]) > rule.constraint_value}

\* The pairs of names active in a module of c that its internal exclusion entry both holds
Clashes(excl, c) ==
    {<<m, ab>> \in (DOMAIN excl \cap DOMAIN c) \X SUBSET {"curl", "volume"} :
        /\ Cardinality(ab) = 2
        /\ \A b \in ab : Active(c, <<m, b>>) /\ In(b, excl[m])}

CountOf(texts, Is(_)) == Cardinality({k \in 1 .. Len(texts) : Is(texts[k])})

\* C10: the violations hold one entry per broken Exclusion rule, one per broken
\* WeightLimit rule and the internal exclusion entries, and is_valid is true
\* exactly when there is none
C10_EveryViolation ==
    op.name = "validate" =>
        /\ CountOf(violations, IsExclusionText)
              = Cardinality(Broken(rules["S"], given, EXCLUSION))
        /\ CountOf(violations, IsWeightLimitText)
              = Cardinality(Broken(rules["S"], given, WEIGHT_LIMIT))
        /\ CountOf(violations, IsInternalText)
              = Cardinality(Clashes(heap[internal_exclusions["S"]], given))
        /\ \A i \in Broken(rules["S"], given, EXCLUSION) \cup Broken(rules["S"], given, WEIGHT_LIMIT) :
              \E k \in 1 .. Len(violations) :
                  /\ Mentions(violations[k], Source(rules["S"][i].rule))
                  /\ Mentions(violations[k], Target(rules["S"][i].rule))
                  /\ IsExclusionText(violations[k]) <=> rules["S"][i].rule.rule_type = EXCLUSION
        /\ is_valid <=> violations = <<>>

\* C10 witness: one combination breaks an Exclusion rule, a WeightLimit rule and an
\* internal exclusion at once, and all three are reported
C10_Witness ==
    /\ op.name = "validate"
    /\ Len(violations) = 3
    /\ Broken(rules["S"], given, EXCLUSION) # {}
    /\ Broken(rules["S"], given, WEIGHT_LIMIT) # {}
    /\ Clashes(heap[internal_exclusions["S"]], given) # {}
    /\ is_valid = FALSE

-----------------------------------------------------------------------------
(* SpecAdvisory: is_combination_valid, then a Dependency rule is added to   *)
(* or removed from the store, then is_combination_valid again on the same   *)
(* combination                                                              *)

AdvisoryDependencies ==
    DependencyRules({<<CrownCurl, TailCurl>>, <<TailVolume, TailCurl>>, <<TailCurl, TailCurl>>}, {1})

AdvisoryRules ==
    ExclusionRules({<<CrownCurl, TailCurl>>, <<TailCurl, TailVolume>>})
        \cup WeightLimitRules({<<TailCurl, CrownCurl>>, <<TailVolume, TailCurl>>}, {0})
        \cup AdvisoryDependencies

InitAdvisory ==
    /\ \E rs \in DrawnStores(MaxRules, AdvisoryRules) : StoresHold(rs, <<>>)
    /\ \E c \in Combinations :
        \E ex \in {EmptyDict, "tail" :> ListValue(<<"curl", "volume">>)} : CallerHolds(c, ex)
    /\ NoApply /\ NoValidate /\ NoGenerate
    /\ op = [name |-> "init"]

UnchangedByEdit ==
    UNCHANGED <<internal_exclusions, heap, data, active_blendshapes, given, constrained,
                again, is_valid, violations, module_blendshapes, max_combinations,
                valid_combinations>>

\* manager.create_dependency_rule(...) after the first validation
DependencyAdded(rule) ==
    /\ op.name = "validate"
    /\ rules' = [rules EXCEPT !["S"] = add_rule(@, rule)]
    /\ op' = [name |-> "create_dependency_rule",
              first |-> [is_valid |-> is_valid, violations |-> violations]]
    /\ UnchangedByEdit

\* manager.remove_rule(rule_id) of a stored Dependency rule after the first validation
DependencyRemoved(i) ==
    /\ op.name = "validate"
    /\ rules["S"][i].rule.rule_type = DEPENDENCY
    /\ rules' = [rules EXCEPT !["S"] = DelItem(@, rules["S"][i].key)]
    /\ op' = [name |-> "remove_rule",
              first |-> [is_valid |-> is_valid, violations |-> violations]]
    /\ UnchangedByEdit

\* is_valid, violations = manager.is_combination_valid(active_blendshapes), once more
ValidateAgain ==
    /\ op.name \in {"create_dependency_rule", "remove_rule"}
    /\ LET result == is_combination_valid(rules["S"], heap[internal_exclusions["S"]],
                                          ValueOf(active_blendshapes))
       IN /\ is_valid' = result.is_valid
          /\ violations' = result.violations
    /\ op' = [name |-> "validate_again", edit |-> op.name, first |-> op.first]
    /\ UNCHANGED <<rules, internal_exclusions, heap, data, active_blendshapes, given,
                   constrained, again, module_blendshapes, max_combinations,
                   valid_combinations>>

NextAdvisory ==
    \/ Validate
    \/ \E rule \in AdvisoryDependencies : DependencyAdded(rule)
    \/ \E i \in 1 .. Len(rules["S"]) : DependencyRemoved(i)
    \/ ValidateAgain

SpecAdvisory == InitAdvisory /\ [][NextAdvisory]_vars

OnlyDependencies(rs) == \A i \in 1 .. Len(rs) : rs[i].rule.rule_type = DEPENDENCY

\* C11: adding or removing a Dependency rule leaves is_valid and the violations of
\* is_combination_valid as they were, and a store of Dependency rules only, without
\* internal exclusions, reports every combination valid
C11_DependencyAdvisory ==
    /\ op.name = "validate_again" =>
            /\ is_valid = op.first.is_valid
            /\ violations = op.first.violations
    /\ (/\ op.name \in {"validate", "validate_again"}
        /\ OnlyDependencies(rules["S"])
        /\ heap[internal_exclusions["S"]] = EmptyDict)
            => is_valid = TRUE /\ violations = <<>>

\* C11 witness: a Dependency rule whose source and target are both active was added
\* to a store whose other rule the combination breaks, and the one violation stays
C11_Witness ==
    /\ op.name = "validate_again"
    /\ op.edit = "create_dependency_rule"
    /\ Len(violations) = 1
    /\ \E i \in 1 .. Len(rules["S"]) :
        LET rule == rules["S"][i].rule IN
        /\ rule.rule_type = DEPENDENCY
        /\ Source(rule) # Target(rule)
        /\ Active(given, Source(rule)) /\ Active(given, Target(rule))

-----------------------------------------------------------------------------
(* SpecInternal: is_combination_valid on a store whose internal exclusions  *)
(* of tail are a mapping from a blendshape name to the names it excludes    *)

\* The names a blendshape of tail can be recorded to exclude
ExcludedBy == [bs \in {"curl", "volume"} |->
                 {<<"wave">>, IF bs = "curl" THEN <<"volume">> ELSE <<"curl">>}]

InternalMappings ==
    UNION {{mp \in [ks -> UNION {ExcludedBy[k] : k \in ks}] :
                \A k \in ks : mp[k] \in ExcludedBy[k]} : ks \in SUBSET {"curl", "volume"}}

InitInternal ==
    /\ \E rs \in DrawnStores(MaxRules, ExclusionRules({<<TailCurl, TailVolume>>})) :
            StoresHold(rs, <<>>)
    /\ \E c \in Combinations, mp \in InternalMappings :
            CallerHolds(c, "tail" :> DictValue(mp))
    /\ NoApply /\ NoValidate /\ NoGenerate
    /\ op = [name |-> "init"]

NextInternal == Validate

SpecInternal == InitInternal /\ [][NextInternal]_vars

\* In the mapping, a is recorded to exclude b
Lists(mapping, a, b) == a \in DOMAIN mapping /\ b \in Range(mapping[a])

\* An internal exclusion violation about the names a and b of the module was recorded
InternalReported(texts, module, a, b) ==
    \E k \in 1 .. Len(texts) :
        /\ IsInternalText(texts[k])
        /\ texts[k][2] = module
        /\ {texts[k][4], texts[k][6]} = {a, b}

-----------------------------------------------------------------------------
(* CombinationGenerator.generate_combinations                              *)
(*                                                                         *)
(* The catalog module_blendshapes is a dict iterated in insertion order: a *)
(* sequence of [module, blendshapes] entries.                              *)

MaxActive == 5     \* "Limit to 5 active max for performance": range(1, min(n + 1, 6))

Min(a, b) == IF a < b THEN a ELSE b

\* all_blendshapes, lines 297-303
AllBlendshapes(catalog) ==
    Concat([e \in 1 .. Len(catalog) |->
        [k \in 1 .. Len(catalog[e].blendshapes) |->
            <<catalog[e].module, catalog[e].blendshapes[k]>>]])

\* itertools.combinations(range(lo, n + 1), k), in the order it yields them (indices from 1)
RECURSIVE IndexCombinations(_, _, _)
IndexCombinations(lo, n, k) ==
    IF k = 0 THEN << <<>> >>
    ELSE Concat([d \in 1 .. (n - lo + 1) |->
            LET first == lo + d - 1
                rest == IndexCombinations(first + 1, n, k - 1)
            IN [j \in 1 .. Len(rest) |-> <<first>> \o rest[j]]])

\* The combination built at lines 320-325: every selected pair at weight 1.0
Selected(all, active_indices) ==
    LET chosen == {all[active_indices[j]] : j \in 1 .. Len(active_indices)}
    IN [m \in {p[1] : p \in chosen} |-> [b \in {p[2] : p \in {q \in chosen : q[1] = m}} |-> 1]]

\* Body of the inner loop after its break test, lines 319-334
Consider(rs, excl, all, active_indices, valid) ==
    LET combination == Selected(all, active_indices) IN
    IF is_combination_valid(rs, excl, combination).is_valid
    THEN Append(valid, Applied(rs, combination))
    ELSE valid

\* Mutant: the inner loop's break test is combination_count > max_combinations
RECURSIVE InnerLoop_late(_, _, _, _, _, _)
InnerLoop_late(rs, excl, all, cands, max, valid) ==
    IF cands = <<>> \/ Len(valid) > max THEN valid
    ELSE InnerLoop_late(rs, excl, all, Tail(cands), max,
                        Consider(rs, excl, all, Head(cands), valid))

\* The inner loop, lines 315-334; combination_count is Len(valid)
RECURSIVE InnerLoop(_, _, _, _, _, _)
InnerLoop(rs, excl, all, cands, max, valid) ==
    IF cands = <<>> \/ Len(valid) >= max THEN valid
    ELSE InnerLoop(rs, excl, all, Tail(cands), max,
                   Consider(rs, excl, all, Head(cands), valid))

\* Mutant: the outer loop runs up to six active pairs
RECURSIVE OuterLoop_six(_, _, _, _, _, _)
OuterLoop_six(rs, excl, all, num_active, max, valid) ==
    IF num_active >= Min(Len(all) + 1, MaxActive + 2) \/ Len(valid) >= max THEN valid
    ELSE OuterLoop_six(rs, excl, all, num_active + 1, max,
                       InnerLoop(rs, excl, all, IndexCombinations(1, Len(all), num_active),
                                 max, valid))

\* The outer loop, lines 309-315
RECURSIVE OuterLoop(_, _, _, _, _, _)
OuterLoop(rs, excl, all, num_active, max, valid) ==
    IF num_active >= Min(Len(all) + 1, MaxActive + 1) \/ Len(valid) >= max THEN valid
    ELSE OuterLoop(rs, excl, all, num_active + 1, max,
                   InnerLoop(rs, excl, all, IndexCombinations(1, Len(all), num_active),
                             max, valid))

generate_combinations(rs, excl, catalog, max) ==
    OuterLoop(rs, excl, AllBlendshapes(catalog), 1, max, <<>>)

-----------------------------------------------------------------------------
(* SpecGenerate: generate_combinations on a drawn store, catalog and cap *)

MaxCombinations == 3      \* max_combinations ranges over 0 .. MaxCombinations

DrawnLists(m) ==
    IF m = "crown" THEN {<<"curl">>}
    ELSE {<<"curl">>, <<"curl", "volume">>, <<"volume", "curl">>}

DrawnCatalogs ==
    {<<>>}
    \cup UNION {{<<[module |-> m, blendshapes |-> l]>> : l \in DrawnLists(m)} : m \in Modules}
    \cup {<<[module |-> "crown", blendshapes |-> c], [module |-> "tail", blendshapes |-> t]>> :
            c \in DrawnLists("crown"), t \in DrawnLists("tail")}

\* Rules of every kind across and within modules.  The candidates have weight 1.0
\* throughout, so a limit of 1.0 bounds nothing and is left out.
GenerateLinks == Links \ {<<TailCurl, CrownCurl>>, <<TailCurl, TailCurl>>}
GenerateRules ==
    ExclusionRules(GenerateLinks) \cup WeightLimitRules(GenerateLinks, {0})
        \cup DependencyRules(GenerateLinks, ConstraintValues)

InitGenerate ==
    /\ \E rs \in DrawnStores(MaxRules, GenerateRules) : StoresHold(rs, <<>>)
    /\ \E ex \in DrawnExclusions : CallerHolds(EmptyDict, ex)
    /\ NoApply /\ NoValidate /\ NoGenerate
    /\ op = [name |-> "init"]

\* valid_combinations = generator.generate_combinations(module_blendshapes, max_combinations)
Generate ==
    /\ op.name = "init"
    /\ \E catalog \in DrawnCatalogs, max \in 0 .. MaxCombinations :
        /\ module_blendshapes' = catalog
        /\ max_combinations' = max
        /\ valid_combinations' =
              generate_combinations(rules["S"], heap[internal_exclusions["S"]], catalog, max)
    /\ op' = [name |-> "generate"]
    /\ UNCHANGED <<rules, internal_exclusions, heap, data, active_blendshapes, given,
                   constrained, again, is_valid, violations>>

NextGenerate == Generate

SpecGenerate == InitGenerate /\ [][NextGenerate]_vars

\* C2: generate_combinations returns at most max_combinations combinations
C2_AtMostMax ==
    op.name = "generate" => Len(valid_combinations) <= max_combinations

\* C2 witness: the cap cut the enumeration short: no rule forbids anything, the
\* catalog has three pairs (seven candidates) and exactly max_combinations >= 1 came back
C2_Witness ==
    /\ op.name = "generate"
    /\ rules["S"] = <<>> /\ heap[internal_exclusions["S"]] = EmptyDict
    /\ Len(AllBlendshapes(module_blendshapes)) = 3
    /\ max_combinations >= 1
    /\ Len(valid_combinations) = max_combinations

\* C3 as stated: every combination generate_combinations returns passes
\* is_combination_valid against the same store (here: a store of rules that do
\* not self-reference)
C3_OutputValid ==
    (op.name = "generate" /\ NoSelfReference(rules["S"])) =>
        \A k \in 1 .. Len(valid_combinations) :
            is_combination_valid(rules["S"], heap[internal_exclusions["S"]],
                                 valid_combinations[k]).is_valid

-----------------------------------------------------------------------------
(* SpecEnumerate: generate_combinations on catalogs of up to six pairs,     *)
(* with caps that cut the enumeration short and with the default cap        *)

DefaultMaxCombinations == 1000     \* max_combinations: int = 1000

EnumerateCatalogs ==
    {<<>>,
     <<[module |-> "crown", blendshapes |-> <<"curl">>],
       [module |-> "tail", blendshapes |-> <<"curl", "volume">>]>>,
     <<[module |-> "tail", blendshapes |-> <<"volume", "curl", "length">>],
       [module |-> "crown", blendshapes |-> <<"curl", "volume">>]>>,
     <<[module |-> "crown", blendshapes |-> <<"curl", "volume", "length">>],
       [module |-> "tail", blendshapes |-> <<"curl", "volume", "length">>]>>}

EnumerateLinks == {<<CrownCurl, TailCurl>>, <<TailCurl, TailVolume>>}
EnumerateRules ==
    ExclusionRules(EnumerateLinks) \cup WeightLimitRules(EnumerateLinks, {0})
        \cup DependencyRules(EnumerateLinks, {0})

\* The caps: some that cut the enumeration short, and the default
EnumerateCaps == (0 .. MaxCombinations + 2) \cup {DefaultMaxCombinations}

InitEnumerate ==
    /\ \E rs \in DrawnStores(MaxRules, EnumerateRules) : StoresHold(rs, <<>>)
    /\ \E ex \in {EmptyDict, "tail" :> ListValue(<<"curl", "volume">>)} :
          CallerHolds(EmptyDict, ex)
    /\ NoApply /\ NoValidate /\ NoGenerate
    /\ op = [name |-> "init"]

\* valid_combinations = generator.generate_combinations(module_blendshapes, max_combinations),
\* max_combinations given or left to its default
GenerateWide ==
    /\ op.name = "init"
    /\ \E catalog \in EnumerateCatalogs, max \in EnumerateCaps :
        /\ module_blendshapes' = catalog
        /\ max_combinations' = max
        /\ valid_combinations' =
              generate_combinations(rules["S"], heap[internal_exclusions["S"]], catalog, max)
    /\ op' = [name |-> "generate"]
    /\ UNCHANGED <<rules, internal_exclusions, heap, data, active_blendshapes, given,
                   constrained, again, is_valid, violations>>

NextEnumerate == GenerateWide

SpecEnumerate == InitEnumerate /\ [][NextEnumerate]_vars

\* The catalog's pairs, flattened, and the candidates: the sets of one to five
\* catalog positions
Pairs == AllBlendshapes(module_blendshapes)
Candidates ==
    {A \in SUBSET (1 .. Len(Pairs)) : Cardinality(A) \in 1 .. Min(Len(Pairs), 5)}

\* A comes before B: smaller, or of the same size and lexicographically earlier
\* (the least position in which they differ belongs to A)
Before(A, B) ==
    \/ Cardinality(A) < Cardinality(B)
    \/ /\ Cardinality(A) = Cardinality(B)
       /\ \E i \in A \ B : \A j \in B \ A : i < j

\* The candidate's combination: every selected pair at weight 1.0
AtFullWeight(A) ==
    [m \in {Pairs[i][1] : i \in A} |->
        [b \in {Pairs[i][2] : i \in {j \in A : Pairs[j][1] = m}} |-> 1]]

Passing ==
    {A \in Candidates :
        is_combination_valid(rules["S"], heap[internal_exclusions["S"]],
                             AtFullWeight(A)).is_valid}

\* How many of the passing candidates come before A
Rank(passing, A) == Cardinality({B \in passing : Before(B, A)})

\* C23: generate_combinations returns, in candidate order, the applied image of
\* the first max_combinations candidates that pass validation: all of them when
\* fewer pass, none of more than five pairs, none invalid, none skipped or repeated
C23_Enumeration ==
    op.name = "generate" =>
        LET passing == Passing IN
        /\ Len(valid_combinations) = Min(max_combinations, Cardinality(passing))
        /\ \A A \in passing :
              LET rank == Rank(passing, A) IN
              rank < max_combinations
                  => valid_combinations[rank + 1] = Applied(rules["S"], AtFullWeight(A))

\* C23 witness: a catalog of six pairs under the default cap, with a rule that
\* changes a candidate's weights: the set of all six pairs passes validation, and
\* the 62 candidates of one to five pairs came back without it
C23_Witness ==
    /\ op.name = "generate"
    /\ Len(Pairs) = 6
    /\ max_combinations = DefaultMaxCombinations
    /\ \E A \in Passing : Applied(rules["S"], AtFullWeight(A)) # AtFullWeight(A)
    /\ is_combination_valid(rules["S"], heap[internal_exclusions["S"]],
                            AtFullWeight(1 .. 6)).is_valid
    /\ Len(valid_combinations) = 62

\* C23 witness of the cut-off: more candidates pass than the cap lets through, and
\* an invalid candidate comes before the last one returned
C23_WitnessCutOff ==
    /\ op.name = "generate"
    /\ max_combinations >= 1
    /\ Len(valid_combinations) = max_combinations
    /\ LET passing == Passing IN
       /\ Cardinality(passing) > max_combinations
       /\ \E A \in Candidates \ passing : \E B \in passing :
             Before(A, B) /\ Rank(passing, B) = max_combinations - 1

-----------------------------------------------------------------------------
(* Serialisation: BlendshapeRule.to_dict / from_dict and                   *)
(* BlendshapeRulesManager.to_dict / from_dict                              *)

Fields == {"rule_id", "rule_type", "source_module", "source_blendshape",
           "target_module", "target_blendshape", "constraint_value", "description"}

\* The dataclass fields that have no default value (lines 24-29)
RequiredFields == Fields \ {"constraint_value", "description"}

\* An operation that can raise returns Raised or Returned(value)
Raised == [raised |-> TRUE]
Returned(value) == [raised |-> FALSE, value |-> value]

\* ConstraintType(value): the member with that value, or ValueError
ConstraintTypeOf(value) ==
    IF \E t \in ConstraintType : ConstraintTypeValue(t) = value
    THEN Returned(CHOOSE t \in ConstraintType : ConstraintTypeValue(t) = value)
    ELSE Raised

\* BlendshapeRule.to_dict, lines 33-37: asdict(self) with rule_type as its value
rule_to_dict(rule) == [rule EXCEPT !.rule_type = ConstraintTypeValue(rule.rule_type)]

\* Mutant: constraint_value and description are not read back, the defaults are used
rule_from_dict_defaults(d) ==
    IF "rule_type" \notin DOMAIN d THEN Raised
    ELSE IF ConstraintTypeOf(d.rule_type).raised THEN Raised
    ELSE IF ~(RequiredFields \subseteq DOMAIN d) \/ ~(DOMAIN d \subseteq Fields) THEN Raised
    ELSE Returned(BlendshapeRule(d.rule_id, ConstraintTypeOf(d.rule_type).value,
                                 d.source_module, d.source_blendshape,
                                 d.target_module, d.target_blendshape, 1, ""))

\* Mutant: every field has to be in the mapping
rule_from_dict_strict(d) ==
    IF "rule_type" \notin DOMAIN d THEN Raised
    ELSE IF ConstraintTypeOf(d.rule_type).raised THEN Raised
    ELSE IF DOMAIN d # Fields THEN Raised
    ELSE Returned(BlendshapeRule(d.rule_id, ConstraintTypeOf(d.rule_type).value,
                                 d.source_module, d.source_blendshape,
                                 d.target_module, d.target_blendshape,
                                 d.constraint_value, d.description))

\* BlendshapeRule.from_dict, lines 40-44: KeyError without rule_type, ValueError on
\* an unknown tag, TypeError from cls(**data) on a missing required or an unknown key
rule_from_dict(d) ==
    IF "rule_type" \notin DOMAIN d THEN Raised
    ELSE IF ConstraintTypeOf(d.rule_type).raised THEN Raised
    ELSE IF ~(RequiredFields \subseteq DOMAIN d) \/ ~(DOMAIN d \subseteq Fields) THEN Raised
    ELSE Returned(BlendshapeRule(d.rule_id, ConstraintTypeOf(d.rule_type).value,
                                 d.source_module, d.source_blendshape,
                                 d.target_module, d.target_blendshape,
                                 Get(d, "constraint_value", 1), Get(d, "description", "")))

\* BlendshapeRulesManager.to_dict, lines 242-247: the exclusions dict is handed out itself
to_dict(rs, excl_ref) ==
    [rules |-> [i \in 1 .. Len(rs) |-> [key |-> rs[i].key, fields |-> rule_to_dict(rs[i].rule)]],
     internal_exclusions |-> excl_ref]

\* Mutant: the try encloses the loop, so the first entry that fails ends the loading
RECURSIVE LoadRules_abort(_, _)
LoadRules_abort(entries, rs) ==
    IF entries = <<>> THEN rs
    ELSE LET rule == rule_from_dict(Head(entries).fields)
         IN IF rule.raised THEN rs
            ELSE LoadRules_abort(Tail(entries), SetItem(rs, Head(entries).key, rule.value))

\* The loop of from_dict, lines 254-259
RECURSIVE LoadRules(_, _)
LoadRules(entries, rs) ==
    IF entries = <<>> THEN rs
    ELSE LET rule == rule_from_dict(Head(entries).fields)
         IN LoadRules(Tail(entries),
                      IF rule.raised THEN rs ELSE SetItem(rs, Head(entries).key, rule.value))

\* BlendshapeRulesManager.from_dict, lines 249-259: the rules and the reference the
\* store holds afterwards; fresh is the reference of a new empty dict
from_dict(d, fresh) ==
    [rules |-> LoadRules(Get(d, "rules", <<>>), <<>>),
     internal_exclusions |-> Get(d, "internal_exclusions", fresh)]

-----------------------------------------------------------------------------
(* Spec: the life of two rule stores.  Store S is edited through add_rule,  *)
(* the create_*_rule methods, remove_rule and set_internal_exclusions;      *)
(* store T is loaded with from_dict from S.to_dict().                       *)

MaxStoreRules == 2     \* rules an edited store holds
MaxEntries == 2        \* rule entries of a mapping read from outside

\* The arguments the create_*_rule calls are made with
Descriptions == {"", "note"}

\* create_exclusion_rule is called for two pairs and for a pair with itself
ExclusionArguments ==
    {<<CrownCurl, TailCurl, d>> : d \in Descriptions} \cup {<<TailCurl, TailCurl, "">>}

CreatedRules ==
    {ExclusionRule(a[1][1], a[1][2], a[2][1], a[2][2], a[3]) : a \in ExclusionArguments}
    \cup {WeightLimitRule("crown", "curl", "tail", "curl", v, "") : v \in ConstraintValues}
    \cup {DependencyRule("tail", "curl", "crown", "curl", v, "") : v \in ConstraintValues}

\* The rules handed to add_rule directly: any id
AddedRules ==
    {BlendshapeRule("custom", DEPENDENCY, "crown", "curl", "tail", "curl", 1, "by hand"),
     BlendshapeRule("custom", EXCLUSION, "tail", "curl", "crown", "curl", 0, "")}

RuleIds == {r.rule_id : r \in CreatedRules \cup AddedRules}

ExclusionValues == {ListValue(<<"curl">>), DictValue("curl" :> <<"volume">>)}

\* Rule entries of a mapping read from outside: sound ones and unparsable ones
GoodFields == rule_to_dict(ExclusionRule("crown", "curl", "tail", "curl", ""))
OtherFields == rule_to_dict(DependencyRule("tail", "curl", "crown", "curl", 1, ""))
Without(d, field) == [f \in DOMAIN d \ {field} |-> d[f]]

ReadEntries ==
    {[key |-> GoodFields.rule_id, fields |-> GoodFields],
     [key |-> "renamed", fields |-> OtherFields],
     [key |-> "no_description", fields |-> Without(GoodFields, "description")],
     [key |-> "bad_tag", fields |-> [GoodFields EXCEPT !.rule_type = "blend"]],
     [key |-> "no_source", fields |-> Without(OtherFields, "source_module")]}

RECURSIVE ReadLists(_)
ReadLists(n) ==
    IF n = 0 THEN {<<>>}
    ELSE LET shorter == ReadLists(n - 1)
         IN shorter \cup {Append(l, e) : l \in shorter, e \in ReadEntries}

DistinctKeys(entries) ==
    \A i, j \in 1 .. Len(entries) : entries[i].key = entries[j].key => i = j

\* What a mapping read from outside holds: its rule entries and its internal
\* exclusions, << >> when it lacks that key
ReadData ==
    {[entries |-> l, exclusions |-> x] :
        l \in {e \in ReadLists(MaxEntries) : DistinctKeys(e)},
        x \in {<< >>, <<"crown" :> ListValue(<<"volume">>)>>}}

LoadedRef == "excl.read"

\* The rules store T holds when it is loaded
HeldBefore == {<<>>} \cup {add_rule(<<>>, r) : r \in AddedRules}

Init ==
    /\ \E held \in HeldBefore : StoresHold(<<>>, held)
    /\ CallerHolds(EmptyDict, EmptyDict)
    /\ NoApply /\ NoValidate /\ NoGenerate
    /\ op = [name |-> "init"]

UnchangedCalls ==
    UNCHANGED <<active_blendshapes, given, constrained, again, is_valid, violations,
                module_blendshapes, max_combinations, valid_combinations>>

\* The model follows every sequence of edits of a store of at most MaxStoreRules
\* rules up to the first load
Room(s, rule_id) ==
    /\ data = << >>
    /\ rule_id \in Keys(rules[s]) \/ Len(rules[s]) < MaxStoreRules

\* store.add_rule(rule)
AddRule(s, rule) ==
    /\ Room(s, rule.rule_id)
    /\ rules' = [rules EXCEPT ![s] = add_rule(@, rule)]
    /\ op' = [name |-> "add_rule", store |-> s, arg |-> rule, held |-> Len(rules[s]),
              returned |-> TRUE]
    /\ UNCHANGED <<internal_exclusions, heap, data>>
    /\ UnchangedCalls

\* store.create_exclusion_rule(...), lines 95-113
CreateExclusionRule(s, source, target, description) ==
    LET rule == ExclusionRule(source[1], source[2], target[1], target[2], description) IN
    /\ Room(s, rule.rule_id)
    /\ rules' = [rules EXCEPT ![s] = add_rule(@, rule)]
    /\ op' = [name |-> "create_exclusion_rule", store |-> s, held |-> Len(rules[s]),
              returned |-> rule]
    /\ UNCHANGED <<internal_exclusions, heap, data>>
    /\ UnchangedCalls

\* store.create_weight_limit_rule(...), lines 115-133
CreateWeightLimitRule(s, source, target, max_weight, description) ==
    LET rule == WeightLimitRule(source[1], source[2], target[1], target[2],
                                max_weight, description) IN
    /\ Room(s, rule.rule_id)
    /\ rules' = [rules EXCEPT ![s] = add_rule(@, rule)]
    /\ op' = [name |-> "create_weight_limit_rule", store |-> s, held |-> Len(rules[s]),
              returned |-> rule]
    /\ UNCHANGED <<internal_exclusions, heap, data>>
    /\ UnchangedCalls

\* store.create_dependency_rule(...), lines 135-153
CreateDependencyRule(s, source, target, strength, description) ==
    LET rule == DependencyRule(source[1], source[2], target[1], target[2],
                               strength, description) IN
    /\ Room(s, rule.rule_id)
    /\ rules' = [rules EXCEPT ![s] = add_rule(@, rule)]
    /\ op' = [name |-> "create_dependency_rule", store |-> s, held |-> Len(rules[s]),
              returned |-> rule]
    /\ UNCHANGED <<internal_exclusions, heap, data>>
    /\ UnchangedCalls

\* store.remove_rule(rule_id), lines 63-68
RemoveRule(s, rule_id) ==
    /\ data = << >>
    /\ rules' = [rules EXCEPT ![s] = IF rule_id \in Keys(@) THEN DelItem(@, rule_id) ELSE @]
    /\ op' = [name |-> "remove_rule", store |-> s, arg |-> rule_id,
              returned |-> rule_id \in Keys(rules[s])]
    /\ UNCHANGED <<internal_exclusions, heap, data>>
    /\ UnchangedCalls

\* Mutant: a list is added to the list the module already has
set_internal_exclusions_merge(excl, module, exclusions) ==
    IF module \in DOMAIN excl /\ excl[module].type = "list" /\ exclusions.type = "list"
    THEN Put(excl, module, ListValue(excl[module].items \o exclusions.items))
    ELSE Put(excl, module, exclusions)

\* self.internal_exclusions[module] = exclusions, line 157
set_internal_exclusions(excl, module, exclusions) == Put(excl, module, exclusions)

\* self.internal_exclusions.get(module, []), line 161
get_internal_exclusions(excl, module) == Get(excl, module, ListValue(<<>>))

\* store.set_internal_exclusions(module, exclusions)
SetInternalExclusions(s, module, exclusions) ==
    /\ data = << >>
    /\ heap' = [heap EXCEPT ![internal_exclusions[s]] =
                    set_internal_exclusions(@, module, exclusions)]
    /\ op' = [name |-> "set_internal_exclusions", store |-> s,
              arg |-> [module |-> module, exclusions |-> exclusions],
              replaced |-> module \in DOMAIN heap[internal_exclusions[s]],
              returned |-> None]
    /\ UNCHANGED <<rules, internal_exclusions, data>>
    /\ UnchangedCalls

\* store.get_internal_exclusions(module)
GetInternalExclusions(s, module) ==
    /\ data = << >>
    /\ op' = [name |-> "get_internal_exclusions", store |-> s, arg |-> module,
              returned |-> get_internal_exclusions(heap[internal_exclusions[s]], module)]
    /\ UNCHANGED <<rules, internal_exclusions, heap, data>>
    /\ UnchangedCalls

\* t.from_dict(s.to_dict())
RoundTrip(s, t) ==
    LET d == to_dict(rules[s], internal_exclusions[s])
        loaded == from_dict(d, LoadedRef)
    IN /\ data' = <<d>>
       /\ rules' = [rules EXCEPT ![t] = loaded.rules]
       /\ internal_exclusions' = [internal_exclusions EXCEPT ![t] = loaded.internal_exclusions]
       /\ op' = [name |-> "round_trip", store |-> t, held |-> Len(rules[t])]
       /\ UNCHANGED heap
       /\ UnchangedCalls

\* t.from_dict(d) for a mapping d read from outside
FromDict(t, read) ==
    LET d == IF read.exclusions = << >>
             THEN [rules |-> read.entries]
             ELSE [rules |-> read.entries, internal_exclusions |-> LoadedRef]
        loaded == from_dict(d, LoadedRef)
    IN /\ data' = <<d>>
       /\ rules' = [rules EXCEPT ![t] = loaded.rules]
       /\ internal_exclusions' = [internal_exclusions EXCEPT ![t] = loaded.internal_exclusions]
       /\ heap' = Put(heap, LoadedRef,
                      IF read.exclusions = << >> THEN EmptyDict ELSE read.exclusions[1])
       /\ op' = [name |-> "from_dict", store |-> t, held |-> Len(rules[t])]
       /\ UnchangedCalls

Next ==
    \/ \E rule \in AddedRules : AddRule("S", rule)
    \/ \E a \in ExclusionArguments : CreateExclusionRule("S", a[1], a[2], a[3])
    \/ \E v \in ConstraintValues :
            CreateWeightLimitRule("S", <<"crown", "curl">>, <<"tail", "curl">>, v, "")
    \/ \E v \in ConstraintValues :
            CreateDependencyRule("S", <<"tail", "curl">>, <<"crown", "curl">>, v, "")
    \/ \E id \in RuleIds : RemoveRule("S", id)
    \/ \E module \in Modules, x \in ExclusionValues : SetInternalExclusions("S", module, x)
    \/ \E module \in Modules : GetInternalExclusions("S", module)
    \/ RoundTrip("S", "T")

Spec == Init /\ [][Next]_vars

-----------------------------------------------------------------------------
(* SpecLoad: from_dict of a mapping read from outside, into a store that    *)
(* held rules or none                                                       *)

InitLoad == Init

NextLoad == \E read \in ReadData : FromDict("T", read)

SpecLoad == InitLoad /\ [][NextLoad]_vars

-----------------------------------------------------------------------------
(* SpecQuery: get_rules_for_blendshape on a drawn store *)

\* Mutant: the module and the blendshape may match on different sides of the rule
get_rules_for_blendshape_mixed(rs, module, blendshape) ==
    SelectSeq(Values(rs), LAMBDA rule :
        /\ module \in {rule.source_module, rule.target_module}
        /\ blendshape \in {rule.source_blendshape, rule.target_blendshape})

\* Lines 74-81
get_rules_for_blendshape(rs, module, blendshape) ==
    SelectSeq(Values(rs), LAMBDA rule :
        \/ rule.source_module = module /\ rule.source_blendshape = blendshape
        \/ rule.target_module = module /\ rule.target_blendshape = blendshape)

QueryRules ==
    LET links == Links \cup {<<CrownCurl, TailVolume>>}
    IN ExclusionRules(links) \cup WeightLimitRules(links, {1}) \cup DependencyRules(links, {1})

\* The (module, blendshape) asked for: the pairs of the rules and crown.volume,
\* which no rule has
Queries == {<<module, blendshape>> : module \in Modules, blendshape \in {"curl", "volume"}}

InitQuery ==
    /\ \E rs \in DrawnStores(MaxRules, QueryRules) : StoresHold(rs, <<>>)
    /\ CallerHolds(EmptyDict, EmptyDict)
    /\ NoApply /\ NoValidate /\ NoGenerate
    /\ op = [name |-> "init"]

\* matching_rules = store.get_rules_for_blendshape(module, blendshape)
GetRulesForBlendshape(s, module, blendshape) ==
    /\ op' = [name |-> "get_rules_for_blendshape", store |-> s,
              arg |-> <<module, blendshape>>,
              returned |-> get_rules_for_blendshape(rules[s], module, blendshape)]
    /\ UNCHANGED <<rules, internal_exclusions, heap, data>>
    /\ UnchangedCalls

NextQuery == \E q \in Queries : GetRulesForBlendshape("S", q[1], q[2])

SpecQuery == InitQuery /\ [][NextQuery]_vars

\* How many times the list holds x
Occurrences(list, x) == Cardinality({k \in 1 .. Len(list) : list[k] = x})

\* C16: get_rules_for_blendshape(module, blendshape) returns each stored rule whose
\* source or target is (module, blendshape) exactly once and no other rule
C16_GetRulesForExact ==
    op.name = "get_rules_for_blendshape" =>
        /\ \A i \in 1 .. Len(rules["S"]) :
              LET rule == rules["S"][i].rule IN
              Occurrences(op.returned, rule)
                  = IF Source(rule) = op.arg \/ Target(rule) = op.arg THEN 1 ELSE 0
        /\ \A k \in 1 .. Len(op.returned) :
              \E i \in 1 .. Len(rules["S"]) : rules["S"][i].rule = op.returned[k]

\* C16 witness: asked for tail.volume, the store returns its rule with that target
\* and not its rule from crown.curl to tail.curl, which shares the module only
C16_Witness ==
    /\ op.name = "get_rules_for_blendshape"
    /\ op.arg = TailVolume
    /\ Len(rules["S"]) = 2
    /\ Source(rules["S"][1].rule) = CrownCurl /\ Target(rules["S"][1].rule) = TailCurl
    /\ Target(rules["S"][2].rule) = TailVolume
    /\ op.returned = <<rules["S"][2].rule>>

-----------------------------------------------------------------------------
(* Claims about serialisation, checked under Spec and SpecLoad *)

\* rules[key]
Lookup(rs, key) == rs[CHOOSE i \in 1 .. Len(rs) : rs[i].key = key].rule

Exclusions(s) == heap[internal_exclusions[s]]

\* C4: after T.from_dict(S.to_dict()), T holds the rule ids of S, every rule with
\* the field values it has in S, and the internal exclusion mapping of S
C4_RoundTrip ==
    op.name = "round_trip" =>
        /\ Keys(rules["T"]) = Keys(rules["S"])
        /\ Len(rules["T"]) = Len(rules["S"])
        /\ \A key \in Keys(rules["S"]) :
              \A f \in Fields : Lookup(rules["T"], key)[f] = Lookup(rules["S"], key)[f]
        /\ Exclusions("T") = Exclusions("S")

\* C4 witness: a round trip of a store with internal exclusions and two rules of
\* different kinds, one with a description of its own, into a store that held rules
C4_Witness ==
    /\ op.name = "round_trip"
    /\ op.held > 0
    /\ Len(rules["S"]) = 2
    /\ rules["S"][1].rule.rule_type # rules["S"][2].rule.rule_type
    /\ \E i \in 1 .. 2 : rules["S"][i].rule.description \in {"note", "by hand"}
    /\ \E i \in 1 .. 2 : rules["S"][i].rule.constraint_value # 1
    /\ Exclusions("S") # EmptyDict
    /\ Keys(rules["T"]) = Keys(rules["S"])

-----------------------------------------------------------------------------
(* Claims about the edits of a store, checked under Spec *)

\* Every rule stored under a key other than id is stored under it unchanged afterwards
OthersKept(before, after, id) ==
    \A key \in Keys(before) \ {id} :
        key \in Keys(after) /\ Lookup(after, key) = Lookup(before, key)

\* C13: add_rule(r) returns true and leaves r stored under its id; the number of
\* rules stays when the id was stored and grows by one when it was not; the rules
\* under other ids and the internal exclusions are unchanged
C13_LastWriteWins ==
    [][op'.name = "add_rule" =>
        LET r == op'.arg IN
        /\ op'.returned = TRUE
        /\ Keys(rules'["S"]) = Keys(rules["S"]) \cup {r.rule_id}
        /\ Lookup(rules'["S"], r.rule_id) = r
        /\ Len(rules'["S"]) = IF r.rule_id \in Keys(rules["S"])
                               THEN Len(rules["S"]) ELSE Len(rules["S"]) + 1
        /\ OthersKept(rules["S"], rules'["S"], r.rule_id)
        /\ Exclusions("S")' = Exclusions("S")
        /\ rules'["T"] = rules["T"]]_vars

\* C13 witness: add_rule replaced the rule stored under its id by a different one,
\* next to another rule, in a store with internal exclusions
C13_Witness ==
    /\ op.name = "add_rule"
    /\ op.held = 2
    /\ Len(rules["S"]) = 2
    /\ Lookup(rules["S"], op.arg.rule_id) = op.arg
    /\ op.arg.rule_type = EXCLUSION
    /\ Exclusions("S") # EmptyDict

Creates == {"create_exclusion_rule", "create_weight_limit_rule", "create_dependency_rule"}

SameKindSourceTarget(r1, r2) ==
    /\ r1.rule_type = r2.rule_type
    /\ Source(r1) = Source(r2)
    /\ Target(r1) = Target(r2)

C15_RemoveRule ==
    [][op'.name = "remove_rule" =>
        LET id == op'.arg IN
        /\ op'.returned = (id \in Keys(rules["S"]))
        /\ op'.returned =>
                /\ Keys(rules'["S"]) = Keys(rules["S"]) \ {id}
                /\ Len(rules'["S"]) = Len(rules["S"]) - 1
                /\ OthersKept(rules["S"], rules'["S"], id)
        /\ ~op'.returned => rules'["S"] = rules["S"]
        /\ Exclusions("S")' = Exclusions("S")
        /\ rules'["T"] = rules["T"]]_vars

\* C15 witness: remove_rule returned true and left the other rule of the store,
\* which has internal exclusions
C15_Witness ==
    /\ op.name = "remove_rule"
    /\ op.returned = TRUE
    /\ Len(rules["S"]) = 1
    /\ op.arg \notin Keys(rules["S"])
    /\ Exclusions("S") # EmptyDict

\* C17: every stored rule has a source pair different from its target pair
C17_NoSelfReference ==
    \A s \in Stores : \A i \in 1 .. Len(rules[s]) :
        Source(rules[s][i].rule) # Target(rules[s][i].rule)

\* C18: after set_internal_exclusions(M, x) the store holds exactly x for M, the
\* entries of the other modules and the rules are unchanged;
\* get_internal_exclusions(M) returns what was set last for M, the empty list
\* for a module never set, and changes nothing
C18_WholeReplace ==
    [][/\ op'.name = "set_internal_exclusions" =>
            /\ get_internal_exclusions(Exclusions("S")', op'.arg.module) = op'.arg.exclusions
            /\ DOMAIN Exclusions("S")' = DOMAIN Exclusions("S") \cup {op'.arg.module}
            /\ \A module \in DOMAIN Exclusions("S") \ {op'.arg.module} :
                    Exclusions("S")'[module] = Exclusions("S")[module]
            /\ rules' = rules
       /\ op'.name = "get_internal_exclusions" =>
            /\ op'.returned = IF op'.arg \in DOMAIN Exclusions("S")
                               THEN Exclusions("S")[op'.arg] ELSE ListValue(<<>>)
            /\ Exclusions("S")' = Exclusions("S")
            /\ rules' = rules]_vars

\* C18 witness: set_internal_exclusions replaced the value of a module while the
\* other module has a value of its own, and the store holds the value set
C18_Witness ==
    /\ op.name = "set_internal_exclusions"
    /\ op.replaced
    /\ DOMAIN Exclusions("S") = Modules
    /\ Exclusions("S")[op.arg.module] = op.arg.exclusions
    /\ \E module \in Modules : Exclusions("S")[module] # op.arg.exclusions
    /\ rules["S"] # <<>>

Tags == {"exclusion", "weight_limit", "dependency"}

\* The entry can be built into a rule: a known tag, every field without a default, no other key
Parsable(fields) ==
    /\ RequiredFields \subseteq DOMAIN fields
    /\ DOMAIN fields \subseteq Fields
    /\ fields.rule_type \in Tags

\* C9: after from_dict(data) the store holds exactly the entries of data["rules"]
\* that can be parsed, each under its key and with its field values; the others
\* are skipped and nothing the store held before is kept
C9_DegradedLoad ==
    op.name = "from_dict" =>
        LET entries == Get(data[1], "rules", <<>>)
            good == {i \in 1 .. Len(entries) : Parsable(entries[i].fields)}
        IN /\ Keys(rules["T"]) = {entries[i].key : i \in good}
           /\ Len(rules["T"]) = Cardinality(good)
           /\ \A i \in good :
                LET rule == Lookup(rules["T"], entries[i].key) IN
                /\ ConstraintTypeValue(rule.rule_type) = entries[i].fields.rule_type
                /\ \A f \in DOMAIN entries[i].fields \ {"rule_type"} :
                      rule[f] = entries[i].fields[f]

\* C30 as stated: in every reachable store every key k of the rules mapping
\* satisfies rules[k].rule_id = k
C30_KeysMatchIds ==
    \A s \in Stores : \A i \in 1 .. Len(rules[s]) : rules[s][i].rule.rule_id = rules[s][i].key

\* C9 witness: a store that held rules is loaded from a mapping whose first entry
\* cannot be parsed and whose second can; it ends with that one rule
C9_Witness ==
    /\ op.name = "from_dict"
    /\ op.held > 0
    /\ LET entries == Get(data[1], "rules", <<>>) IN
        /\ Len(entries) = 2
        /\ ~Parsable(entries[1].fields)
        /\ Parsable(entries[2].fields)
        /\ Keys(rules["T"]) = {entries[2].key}

-----------------------------------------------------------------------------
(* SpecParse: BlendshapeRule.from_dict on a drawn mapping *)

MaxMissing == 2        \* fields a drawn mapping lacks

\* The mappings to_dict gives for rules of the three kinds
WholeMappings ==
    {rule_to_dict(r) : r \in
        {ExclusionRule("crown", "curl", "tail", "curl", ""),
         WeightLimitRule("crown", "curl", "tail", "curl", 0, "note"),
         DependencyRule("tail", "curl", "crown", "curl", 1, ""),
         BlendshapeRule("custom", DEPENDENCY, "crown", "curl", "tail", "curl", 2, "by hand")}}

\* The tags a mapping can carry instead of its own: none of the three values, and
\* the name of a member instead of its value
OtherTags == {"blend", "EXCLUSION"}

\* d without the keys in gone
Lacking(d, gone) == [f \in DOMAIN d \ gone |-> d[f]]

ParsedMappings ==
    LET tagged == WholeMappings
                    \cup {[d EXCEPT !.rule_type = t] : d \in WholeMappings, t \in OtherTags}
        lacking == {Lacking(d, gone) : d \in tagged,
                        gone \in {g \in SUBSET Fields : Cardinality(g) <= MaxMissing}}
    IN lacking \cup {Put(d, "comment", "x") : d \in lacking}

InitParse ==
    /\ StoresHold(<<>>, <<>>)
    /\ \E d \in ParsedMappings :
          /\ active_blendshapes = EmptyDict
          /\ given = EmptyDict
          /\ heap = Put([r \in {ExclRef(s) : s \in Stores} |-> EmptyDict], "arg", d)
    /\ NoApply /\ NoValidate /\ NoGenerate
    /\ op = [name |-> "init"]

\* rule = BlendshapeRule.from_dict(d) for the mapping d the caller holds
ParseRule ==
    /\ op.name = "init"
    /\ op' = [name |-> "rule_from_dict", returned |-> rule_from_dict(heap["arg"])]
    /\ UNCHANGED <<rules, internal_exclusions, heap, data>>
    /\ UnchangedCalls

NextParse == ParseRule

SpecParse == InitParse /\ [][NextParse]_vars

\* The fields C19 names
NamedFields == Fields \ {"rule_id"}

\* The rule has the field values of the mapping
ReadBack(rule, d) ==
    /\ ConstraintTypeValue(rule.rule_type) = d.rule_type
    /\ \A f \in (DOMAIN d \cap Fields) \ {"rule_type"} : rule[f] = d[f]

\* C19: BlendshapeRule.from_dict gives an error whenever the tag is not one of the
\* three or any of the fields is missing, and on a mapping with every field and a
\* known tag it returns the rule with those field values
C19_MalformedFails ==
    op.name = "rule_from_dict" =>
        LET d == heap["arg"] IN
        /\ (~(NamedFields \subseteq DOMAIN d) \/ d.rule_type \notin Tags)
                => op.returned.raised
        /\ (DOMAIN d = Fields /\ d.rule_type \in Tags)
                => ~op.returned.raised /\ ReadBack(op.returned.value, d)

\* C19 as amended: an error whenever the tag is not one of the three or a field
\* without a default (rule_id, the tag, the modules and blendshapes of source and
\* target) is missing or the mapping has a key that is no field; otherwise the rule
\* with the field values of the mapping, 1.0 for a missing constraint_value and ""
\* for a missing description
C19_RequiredFieldsOnly ==
    op.name = "rule_from_dict" =>
        LET d == heap["arg"]
            malformed == \/ ~(RequiredFields \subseteq DOMAIN d)
                         \/ d.rule_type \notin Tags
                         \/ ~(DOMAIN d \subseteq Fields)
        IN /\ malformed => op.returned.raised
           /\ ~malformed =>
                /\ ~op.returned.raised
                /\ ReadBack(op.returned.value, d)
                /\ "constraint_value" \notin DOMAIN d => op.returned.value.constraint_value = 1
                /\ "description" \notin DOMAIN d => op.returned.value.description = ""

\* C19 witness: a mapping with a known tag that lacks constraint_value and
\* description is built into a rule with the defaults
C19_Witness ==
    /\ op.name = "rule_from_dict"
    /\ DOMAIN heap["arg"] = RequiredFields
    /\ heap["arg"].rule_type = "weight_limit"
    /\ ~op.returned.raised
    /\ op.returned.value.constraint_value = 1
    /\ op.returned.value.description = ""
    /\ op.returned.value.rule_type = WEIGHT_LIMIT

-----------------------------------------------------------------------------
(* CombinationGenerator.generate_timeline_data                             *)

\* Mutant: the segment ends one frame later
Segment_long(i, combination, current_frame, frames_per_combination) ==
    [index |-> i,
     start_frame |-> current_frame,
     end_frame |-> current_frame + frames_per_combination,
     blendshapes |-> combination]

\* combination_data, lines 361-369; i is the 0-based index
Segment(i, combination, current_frame, frames_per_combination) ==
    [index |-> i,
     start_frame |-> current_frame,
     end_frame |-> current_frame + frames_per_combination - 1,
     blendshapes |-> combination]

\* Mutant: the return to 0.0 is added after the last combination too
Keyframes_always(weight, start_frame, end_frame, last) ==
    <<[frame |-> start_frame, weight |-> weight], [frame |-> end_frame, weight |-> weight],
      [frame |-> end_frame + 1, weight |-> 0]>>

\* The keyframes of one combination, lines 381-390
Keyframes(weight, start_frame, end_frame, last) ==
    <<[frame |-> start_frame, weight |-> weight], [frame |-> end_frame, weight |-> weight]>>
        \o (IF last THEN <<>> ELSE <<[frame |-> end_frame + 1, weight |-> 0]>>)

\* timeline_data["keyframes"] after the loops of lines 374-390 for one combination
AddKeyframes(keyframes, combination, start_frame, end_frame, last) ==
    [module \in DOMAIN keyframes \cup DOMAIN combination |->
        LET old == Get(keyframes, module, EmptyDict)
            blendshapes == Get(combination, module, EmptyDict)
        IN [blendshape \in DOMAIN old \cup DOMAIN blendshapes |->
                Get(old, blendshape, <<>>)
                    \o (IF blendshape \in DOMAIN blendshapes
                        THEN Keyframes(blendshapes[blendshape], start_frame, end_frame, last)
                        ELSE <<>>)]]

\* The loop of lines 358-394 from the combination at position i (1-based) on
RECURSIVE TimelineLoop(_, _, _, _, _)
TimelineLoop(combinations, i, current_frame, frames_per_combination, timeline_data) ==
    IF i > Len(combinations) THEN timeline_data
    ELSE LET segment == Segment(i - 1, combinations[i], current_frame, frames_per_combination)
         IN TimelineLoop(combinations, i + 1, segment.end_frame + 1, frames_per_combination,
                [timeline_data EXCEPT
                    !.combinations = Append(@, segment),
                    !.keyframes = AddKeyframes(@, combinations[i], segment.start_frame,
                                               segment.end_frame, i = Len(combinations))])

generate_timeline_data(combinations, frames_per_combination) ==
    TimelineLoop(combinations, 1, 1, frames_per_combination,
        [frame_rate |-> 24,
         total_frames |-> Len(combinations) * frames_per_combination,
         frames_per_combination |-> frames_per_combination,
         combinations |-> <<>>,
         keyframes |-> EmptyDict])

-----------------------------------------------------------------------------
(* SpecTimeline: generate_timeline_data on a drawn list of combinations *)

MaxTimeline == 3       \* combinations in a drawn list
MaxFrames == 3         \* frames_per_combination ranges over 1 .. MaxFrames

\* The combinations of a drawn list: one blendshape, two of a module, another
\* module, and the empty combination
TimelineCombinations ==
    {"tail" :> ("curl" :> 1),
     "tail" :> ("curl" :> 2 @@ "volume" :> 1),
     "crown" :> ("curl" :> 1),
     EmptyDict}

RECURSIVE TimelineLists(_)
TimelineLists(n) ==
    IF n = 0 THEN {<<>>}
    ELSE LET shorter == TimelineLists(n - 1)
         IN shorter \cup {Append(l, c) : l \in shorter, c \in TimelineCombinations}

InitTimeline ==
    /\ StoresHold(<<>>, <<>>)
    /\ CallerHolds(EmptyDict, EmptyDict)
    /\ NoApply /\ NoValidate
    /\ module_blendshapes = None
    /\ max_combinations = 0
    /\ valid_combinations \in TimelineLists(MaxTimeline)
    /\ \E f \in 1 .. MaxFrames : op = [name |-> "init", frames_per_combination |-> f]

\* timeline_data = generator.generate_timeline_data(valid_combinations, frames_per_combination)
GenerateTimelineData ==
    /\ op.name = "init"
    /\ op' = [name |-> "generate_timeline_data",
              frames_per_combination |-> op.frames_per_combination,
              returned |-> generate_timeline_data(valid_combinations,
                                                  op.frames_per_combination)]
    /\ UNCHANGED <<rules, internal_exclusions, heap, data, active_blendshapes, given,
                   constrained, again, is_valid, violations, module_blendshapes,
                   max_combinations, valid_combinations>>

NextTimeline == GenerateTimelineData

SpecTimeline == InitTimeline /\ [][NextTimeline]_vars

\* C20: combination i (0-based) lies on the frames start_i .. start_i + f - 1 with
\* start_0 = 1 and start_(i+1) = end_i + 1; the segments are in list order,
\* contiguous and pairwise disjoint, and total_frames is n * f
C20_TimelineLayout ==
    op.name = "generate_timeline_data" =>
        LET segments == op.returned.combinations
            n == Len(valid_combinations)
            f == op.frames_per_combination
        IN /\ Len(segments) = n
           /\ \A k \in 1 .. n :
                /\ segments[k].index = k - 1
                /\ segments[k].blendshapes = valid_combinations[k]
                /\ segments[k].start_frame = IF k = 1 THEN 1 ELSE segments[k - 1].end_frame + 1
                /\ segments[k].end_frame = segments[k].start_frame + f - 1
           /\ \A j, k \in 1 .. n :
                j < k => segments[j].end_frame < segments[k].start_frame
           /\ op.returned.total_frames = n * f
           /\ n > 0 => segments[n].end_frame = op.returned.total_frames

\* C20 witness: three combinations of tail, crown and tail, of two frames each, end
\* on frame 6 of 6
C20_Witness ==
    /\ op.name = "generate_timeline_data"
    /\ Len(valid_combinations) = 3
    /\ DOMAIN valid_combinations[1] = {"tail"}
    /\ DOMAIN valid_combinations[2] = {"crown"}
    /\ DOMAIN valid_combinations[3] = {"tail"}
    /\ op.frames_per_combination = 2
    /\ op.returned.combinations[2].start_frame = 3
    /\ op.returned.combinations[3].end_frame = 6
    /\ op.returned.total_frames = 6

\* The keyframe list of a blendshape in the returned data, empty when it has none
KeyframesOf(module, blendshape) ==
    Get(Get(op.returned.keyframes, module, EmptyDict), blendshape, <<>>)

\* The positions (1-based, ascending) of the combinations that contain the blendshape
Holding(module, blendshape) ==
    SelectSeq([i \in 1 .. Len(valid_combinations) |-> i],
              LAMBDA i : /\ module \in DOMAIN valid_combinations[i]
                         /\ blendshape \in DOMAIN valid_combinations[i][module])

\* The keyframes the combination at position i owes the blendshape: a hold pair
\* on its segment, then the return to 0.0 unless it is the last combination
Owed(module, blendshape, i) ==
    LET f == op.frames_per_combination
        w == valid_combinations[i][module][blendshape]
    IN <<[frame |-> (i - 1) * f + 1, weight |-> w], [frame |-> i * f, weight |-> w]>>
         \o (IF i < Len(valid_combinations)
             THEN <<[frame |-> i * f + 1, weight |-> 0]>> ELSE <<>>)

TimelineNames == {"curl", "volume", "length"}

\* C24: a blendshape's keyframe list is, combination by combination, (start_i, w),
\* (end_i, w) and then (end_i + 1, 0.0) exactly when i is not the last; a
\* combination without the blendshape adds nothing to it
C24_Keyframes ==
    op.name = "generate_timeline_data" =>
        \A module \in Modules, blendshape \in TimelineNames :
            LET holding == Holding(module, blendshape) IN
            KeyframesOf(module, blendshape) =
                Concat([k \in 1 .. Len(holding) |-> Owed(module, blendshape, holding[k])])

\* C24 witness: tail.curl is in the first and the last of three combinations of
\* two frames and not in the second: hold, return to 0.0 on frame 3, nothing for
\* frames 3-4, hold on 5-6 and no return after the last
C24_Witness ==
    /\ op.name = "generate_timeline_data"
    /\ Len(valid_combinations) = 3
    /\ op.frames_per_combination = 2
    /\ Holding("tail", "curl") = <<1, 3>>
    /\ KeyframesOf("tail", "curl") =
          <<[frame |-> 1, weight |-> valid_combinations[1].tail.curl],
            [frame |-> 2, weight |-> valid_combinations[1].tail.curl],
            [frame |-> 3, weight |-> 0],
            [frame |-> 5, weight |-> valid_combinations[3].tail.curl],
            [frame |-> 6, weight |-> valid_combinations[3].tail.curl]>>

\* C26 as stated: no blendshape has two keyframes on one frame with different weights
C26_OneWeightPerFrame ==
    op.name = "generate_timeline_data" =>
        \A module \in Modules, blendshape \in TimelineNames :
            LET keyframes == KeyframesOf(module, blendshape) IN
            \A j, k \in 1 .. Len(keyframes) :
                keyframes[j].frame = keyframes[k].frame
                    => keyframes[j].weight = keyframes[k].weight

-----------------------------------------------------------------------------
(* SpecShare: store T is loaded with T.from_dict(S.to_dict()); afterwards   *)
(* either store is edited through add_rule, remove_rule and                 *)
(* set_internal_exclusions                                                  *)

SharedRules == AddedRules \cup {ExclusionRule("crown", "curl", "tail", "curl", "")}

InitShare ==
    /\ \E rs \in DrawnStores(1, SharedRules) : StoresHold(rs, <<>>)
    /\ \E ex \in {EmptyDict, "tail" :> ListValue(<<"volume">>)} : CallerHolds(EmptyDict, ex)
    /\ NoApply /\ NoValidate /\ NoGenerate
    /\ op = [name |-> "init"]

\* T.from_dict(S.to_dict()), once
Load ==
    /\ data = << >>
    /\ RoundTrip("S", "T")

\* store.add_rule(rule) after the load
AddRuleLoaded(s, rule) ==
    /\ data # << >>
    /\ rule.rule_id \in Keys(rules[s]) \/ Len(rules[s]) < MaxStoreRules
    /\ rules' = [rules EXCEPT ![s] = add_rule(@, rule)]
    /\ op' = [name |-> "add_rule", store |-> s, arg |-> rule, returned |-> TRUE]
    /\ UNCHANGED <<internal_exclusions, heap, data>>
    /\ UnchangedCalls

\* store.remove_rule(rule_id) after the load
RemoveRuleLoaded(s, rule_id) ==
    /\ data # << >>
    /\ rules' = [rules EXCEPT ![s] = IF rule_id \in Keys(@) THEN DelItem(@, rule_id) ELSE @]
    /\ op' = [name |-> "remove_rule", store |-> s, arg |-> rule_id,
              returned |-> rule_id \in Keys(rules[s])]
    /\ UNCHANGED <<internal_exclusions, heap, data>>
    /\ UnchangedCalls

\* store.set_internal_exclusions(module, exclusions) after the load
SetInternalExclusionsLoaded(s, module, exclusions) ==
    /\ data # << >>
    /\ heap' = [heap EXCEPT ![internal_exclusions[s]] =
                    set_internal_exclusions(@, module, exclusions)]
    /\ op' = [name |-> "set_internal_exclusions", store |-> s,
              arg |-> [module |-> module, exclusions |-> exclusions], returned |-> None]
    /\ UNCHANGED <<rules, internal_exclusions, data>>
    /\ UnchangedCalls

NextShare ==
    \/ Load
    \/ \E s \in Stores, rule \in SharedRules : AddRuleLoaded(s, rule)
    \/ \E s \in Stores, id \in {r.rule_id : r \in SharedRules} : RemoveRuleLoaded(s, id)
    \/ \E s \in Stores, module \in Modules, x \in ExclusionValues :
            SetInternalExclusionsLoaded(s, module, x)

SpecShare == InitShare /\ [][NextShare]_vars

\* C27 as stated: after T.from_dict(S.to_dict()), an add_rule, remove_rule or
\* set_internal_exclusions on one store leaves the rules and the internal
\* exclusions of the other store unchanged
C27_StoresIndependent ==
    [][op'.name \in {"add_rule", "remove_rule", "set_internal_exclusions"} =>
        \A other \in Stores \ {op'.store} :
            /\ rules'[other] = rules[other]
            /\ Exclusions(other)' = Exclusions(other)]_vars

-----------------------------------------------------------------------------
(* ModuleManager.set_blendshape_exclusion and ModuleManager.remove_blendshape *)
(*                                                                           *)
(* The manager and the ModuleInfo of its current module are objects of the   *)
(* heap.  ModuleInfo.blendshapes is a dict name -> weight, of which only the *)
(* keys are read here; ModuleInfo.exclusions is a dict name -> set of names. *)

ManagerRef == "module_manager"
ModuleInfoRef == "module_info"

\* (success, message) as the methods return it; the message is left out
Failure == FALSE
Success == TRUE

\* Mutant: the exclusion is recorded and removed in one direction only
set_blendshape_exclusion_oneway(module_info, blendshape_name, excluded_blendshape, excluded) ==
    IF blendshape_name \notin module_info.blendshapes
           \/ excluded_blendshape \notin module_info.blendshapes
    THEN [module_info |-> module_info, returned |-> Failure]
    ELSE LET held == Get(module_info.exclusions, blendshape_name, {})
         IN [module_info |->
                [module_info EXCEPT !.exclusions =
                    Put(@, blendshape_name,
                        IF excluded THEN held \cup {excluded_blendshape}
                        ELSE held \ {excluded_blendshape})],
             returned |-> Success]

\* ModuleManager.set_blendshape_exclusion on a loaded module, lines 676-709
set_blendshape_exclusion(module_info, blendshape_name, excluded_blendshape, excluded) ==
    IF blendshape_name \notin module_info.blendshapes
           \/ excluded_blendshape \notin module_info.blendshapes
    THEN [module_info |-> module_info, returned |-> Failure]
    ELSE LET initialised == IF blendshape_name \in DOMAIN module_info.exclusions
                            THEN module_info.exclusions
                            ELSE Put(module_info.exclusions, blendshape_name, {})
             first == IF excluded
                      THEN [initialised EXCEPT ![blendshape_name] = @ \cup {excluded_blendshape}]
                      ELSE [initialised EXCEPT ![blendshape_name] = @ \ {excluded_blendshape}]
             both == IF excluded
                     THEN Put(first, excluded_blendshape,
                              Get(first, excluded_blendshape, {}) \cup {blendshape_name})
                     ELSE IF excluded_blendshape \in DOMAIN first
                          THEN [first EXCEPT ![excluded_blendshape] = @ \ {blendshape_name}]
                          ELSE first
         IN [module_info |-> [module_info EXCEPT !.exclusions = both], returned |-> Success]

\* What USDModuleUtils(...).remove_blendshape(name) does, lines 999-1012 of
\* usd_utils.py, and its constructor: the prim is removed, or it is not found or
\* the stage raises (False), or opening the file raises
UsdOutcomes == {"removed", "not_removed", "raised"}

\* ModuleManager.remove_blendshape on a loaded module, lines 581-610
remove_blendshape(module_info, blendshape_name, usd) ==
    IF blendshape_name \notin module_info.blendshapes
    THEN [module_info |-> module_info, returned |-> Failure]
    ELSE IF usd # "removed"
    THEN [module_info |-> module_info, returned |-> Failure]
    ELSE LET kept == [name \in DOMAIN module_info.exclusions \ {blendshape_name} |->
                        module_info.exclusions[name]]
         IN [module_info |->
                [blendshapes |-> module_info.blendshapes \ {blendshape_name},
                 exclusions |-> [name \in DOMAIN kept |-> kept[name] \ {blendshape_name}]],
             returned |-> Success]

-----------------------------------------------------------------------------
(* SpecModule: a loaded module with an empty exclusion map, then any        *)
(* sequence of set_blendshape_exclusion and remove_blendshape calls         *)

BlendshapeNames == {"curl", "volume", "length"}

InitModule ==
    /\ StoresHold(<<>>, <<>>)
    /\ active_blendshapes = EmptyDict /\ given = EmptyDict
    /\ \E present \in SUBSET BlendshapeNames :
          heap = (ManagerRef :> [current_module |-> "tail",
                                 modules |-> ("tail" :> ModuleInfoRef)])
                 @@ (ModuleInfoRef :> [blendshapes |-> present, exclusions |-> EmptyDict])
                 @@ [r \in {ExclRef(store) : store \in Stores} |-> EmptyDict]
    /\ NoApply /\ NoValidate /\ NoGenerate
    /\ op = [name |-> "init"]

CurrentModuleInfo == heap[ManagerRef].modules[heap[ManagerRef].current_module]

\* manager.set_blendshape_exclusion(blendshape_name, excluded_blendshape, excluded)
SetBlendshapeExclusion(blendshape_name, excluded_blendshape, excluded) ==
    LET out == set_blendshape_exclusion(heap[CurrentModuleInfo], blendshape_name,
                                        excluded_blendshape, excluded) IN
    /\ heap[ManagerRef].current_module # None
    /\ heap' = [heap EXCEPT ![CurrentModuleInfo] = out.module_info]
    /\ op' = [name |-> "set_blendshape_exclusion",
              arg |-> <<blendshape_name, excluded_blendshape, excluded>>,
              before |-> heap[CurrentModuleInfo], returned |-> out.returned]
    /\ UNCHANGED <<rules, internal_exclusions, data>>
    /\ UnchangedCalls

\* manager.remove_blendshape(blendshape_name)
RemoveBlendshape(blendshape_name, usd) ==
    LET out == remove_blendshape(heap[CurrentModuleInfo], blendshape_name, usd) IN
    /\ heap[ManagerRef].current_module # None
    /\ heap' = [heap EXCEPT ![CurrentModuleInfo] = out.module_info]
    /\ op' = [name |-> "remove_blendshape", arg |-> <<blendshape_name>>,
              before |-> heap[CurrentModuleInfo], returned |-> out.returned]
    /\ UNCHANGED <<rules, internal_exclusions, data>>
    /\ UnchangedCalls

NextModule ==
    \/ \E a, b \in BlendshapeNames, excluded \in BOOLEAN : SetBlendshapeExclusion(a, b, excluded)
    \/ \E x \in BlendshapeNames, usd \in UsdOutcomes : RemoveBlendshape(x, usd)

SpecModule == InitModule /\ [][NextModule]_vars

ModuleExclusions == heap[ModuleInfoRef].exclusions
ModuleBlendshapes == heap[ModuleInfoRef].blendshapes

Symmetric(exclusions) ==
    \A a, b \in BlendshapeNames :
        (a \in DOMAIN exclusions /\ b \in exclusions[a])
            <=> (b \in DOMAIN exclusions /\ a \in exclusions[b])

NamesOf(exclusions) == DOMAIN exclusions \cup UNION {exclusions[a] : a \in DOMAIN exclusions}

\* C28: after any sequence of set_blendshape_exclusion and remove_blendshape
\* calls on a module loaded with an empty exclusion map, b is in exclusions[a]
\* iff a is in exclusions[b] and every name in the map is a blendshape of the
\* module; a call naming a blendshape the module lacks fails and changes nothing
C28_SymmetricExclusions ==
    /\ [](Symmetric(ModuleExclusions) /\ NamesOf(ModuleExclusions) \subseteq ModuleBlendshapes)
    /\ [][(op'.name \in {"set_blendshape_exclusion", "remove_blendshape"}
            /\ \E k \in 1 .. Min(2, Len(op'.arg)) : op'.arg[k] \notin ModuleBlendshapes)
                => op'.returned = Failure /\ heap' = heap]_vars

\* C28 witness: remove_blendshape succeeded on a blendshape that excluded another
\* and was excluded by it; the other keeps its key with an emptied set
C28_Witness ==
    /\ op.name = "remove_blendshape"
    /\ op.returned = Success
    /\ op.arg[1] \in DOMAIN op.before.exclusions
    /\ \E other \in DOMAIN ModuleExclusions :
          /\ other \in op.before.exclusions[op.arg[1]]
          /\ op.arg[1] \in op.before.exclusions[other]
          /\ ModuleExclusions[other] = {}
    /\ op.arg[1] \notin NamesOf(ModuleExclusions)

-----------------------------------------------------------------------------
(* GroupManager.save_current_group and GroupManager.load_group              *)
(*                                                                          *)
(* The manager's rule store is store S.  The group file's custom data is a  *)
(* key-value store, kept in the heap under GroupFileRef: set_custom_data    *)
(* writes a key, get_custom_data reads it or gives the default.             *)

GroupFileRef == "group_file"

\* json.dumps / json.loads on the mappings met here (string keys; floats, strings,
\* lists and mappings as values): the text is kept as the value it denotes
json_dumps(value) == [text_of |-> value]
json_loads(text) == text.text_of

\* BlendshapeRulesManager.to_json, lines 261-263, with the exclusions dict read out
to_json(rs, excl) == json_dumps([rules |-> to_dict(rs, None).rules, internal_exclusions |-> excl])

\* BlendshapeRulesManager.from_json, lines 265-271: what from_dict is given
from_json(text) == json_loads(text)

\* The custom data after the writes of save_current_group, lines 187-199
SavedCustomData(file, rs, excl) ==
    IF rs = <<>> THEN file
    ELSE LET rules_data == json_loads(to_json(rs, excl))
             exclusions == Get(rules_data, "exclusions", EmptyDict)
             constraints == Get(rules_data, "constraints", EmptyDict)
             with_exclusions == IF exclusions # EmptyDict
                                THEN Put(file, "exclusionRules", exclusions) ELSE file
         IN IF constraints # EmptyDict
            THEN Put(with_exclusions, "constraintRules", constraints) ELSE with_exclusions

\* rules_data of load_group, lines 87-95
LoadedRulesData(file) ==
    [exclusions |-> Get(file, "exclusionRules", EmptyDict),
     constraints |-> Get(file, "constraintRules", EmptyDict)]

-----------------------------------------------------------------------------
(* SpecGroup: a loaded group whose rule store holds rules or none; the      *)
(* group is saved and loaded again                                          *)

GroupRules == {ExclusionRule("crown", "curl", "tail", "curl", "note"),
               WeightLimitRule("crown", "curl", "tail", "curl", 0, ""),
               DependencyRule("tail", "curl", "crown", "curl", 1, "")}

\* What the group file holds before: nothing, or rule entries written by other means
GroupFiles ==
    {EmptyDict,
     "exclusionRules" :> <<[key |-> "crown.curl_X_tail.curl",
                            fields |-> rule_to_dict(ExclusionRule("crown", "curl", "tail",
                                                                  "curl", ""))]>>}

InitGroup ==
    /\ \E rs \in DrawnStores(MaxStoreRules, GroupRules) : StoresHold(rs, <<>>)
    /\ active_blendshapes = EmptyDict /\ given = EmptyDict
    /\ \E file \in GroupFiles :
          heap = (GroupFileRef :> file)
                 @@ [r \in {ExclRef(store) : store \in Stores} \cup {LoadedRef} |-> EmptyDict]
    /\ NoApply /\ NoValidate /\ NoGenerate
    /\ op = [name |-> "init"]

\* manager.save_current_group() with a group loaded; usd tells whether the USD
\* calls went through or raised
SaveCurrentGroup(usd) ==
    /\ heap' = IF usd = "saved"
               THEN [heap EXCEPT ![GroupFileRef] =
                        SavedCustomData(@, rules["S"], heap[internal_exclusions["S"]])]
               ELSE heap
    /\ op' = [name |-> "save_current_group", returned |-> usd = "saved"]
    /\ UNCHANGED <<rules, internal_exclusions, data>>
    /\ UnchangedCalls

\* manager.load_group(group); usd tells whether the file was found valid and read,
\* or the method returned failure before touching the manager
LoadGroup(usd) ==
    /\ IF usd = "read"
       THEN LET text == json_dumps(LoadedRulesData(heap[GroupFileRef]))
                loaded == from_dict(from_json(text), LoadedRef)
            IN /\ rules' = [rules EXCEPT !["S"] = loaded.rules]
               /\ internal_exclusions' =
                     [internal_exclusions EXCEPT !["S"] = loaded.internal_exclusions]
               /\ heap' = [heap EXCEPT ![LoadedRef] = EmptyDict]
       ELSE UNCHANGED <<rules, internal_exclusions, heap>>
    /\ op' = [name |-> "load_group", returned |-> usd = "read", held |-> rules["S"],
              saved |-> op.name = "save_current_group" /\ op.returned]
    /\ UNCHANGED data
    /\ UnchangedCalls

NextGroup ==
    \/ \E usd \in {"saved", "raised"} : SaveCurrentGroup(usd)
    \/ \E usd \in {"read", "failed"} : LoadGroup(usd)

SpecGroup == InitGroup /\ [][NextGroup]_vars

\* C29 as stated: when the rule store holds rules and save_current_group has
\* succeeded, a successful load_group that follows leaves the rule store with the
\* same rule ids and field values
C29_RulesSurviveReload ==
    (op.name = "load_group" /\ op.returned /\ op.saved /\ op.held # <<>>) =>
        /\ Keys(rules["S"]) = Keys(op.held)
        /\ \A key \in Keys(op.held) : Lookup(rules["S"], key) = Lookup(op.held, key)

====
